---- MODULE Spec2Model ----
(***************************************************************************)
(* Model of the training engine of naive-supervised:                       *)
(*   - GoferThreadsPool            (TRAIN/Utilities.hpp)                   *)
(*   - SupervisedNetworkTrainer    (TRAIN/SupervisedNetworksBases.hpp)     *)
(*   - GeometricWeightsCrafter     (TRAIN/NaiveSupervisedNetworks.hpp)     *)
(* Every critical section that runs under myMutex is one atomic step; the  *)
(* notifications, which the code issues after releasing myMutex, and the   *)
(* errand bodies, which run outside it, are steps of their own.            *)
(***************************************************************************)
EXTENDS Integers, Sequences, FiniteSets, TLC

(***************************************************************************)
(* Bounds of the model.                                                    *)
(***************************************************************************)
\* Number of gofer threads the pool is constructed with.
GoferThreadsCount == 2
\* Number of events of the trainer, which is the size of its errands vector.
EventsCount == 2
\* The pool's test client stops enqueueing once this many errands were enqueued.
MaxEnqueuedErrands == 3
\* Largest container the pool's test client hands to enQueueErrands().
MaxContainerSize == 2

Gofers == 1..GoferThreadsCount
Errands == 1..EventsCount
\* A std::function<void()> that holds no target.
EmptyErrand == 0
NoErrand == 0

VARIABLES
  \* GoferThreadsPool
  myErrandsLeftCount,   \* being run AND still waiting in myErrandsQueue
  myMustDie,
  myErrandsQueue,
  goferPc,              \* position of each gofer thread in goferThreadMethod()
  goferErrand,          \* the local 'errand' of each gofer thread
  \* the thread that uses the pool
  clientPc,             \* its position
  clientCv,             \* its state in myClientThreadsConditionVariable
  clientResult,         \* what its last call of the pool returned
  \* history of the errands: how many copies of each were enqueued, popped, run
  enqueuedCount,
  startedCount,
  completedCount,
  \* SupervisedNetworkTrainer
  myMaximumTrainingCyclesCount,
  myAlive,
  hasGoferThreadsPool,  \* whether myGoferThreadsPoolPointer holds a pool
  cyclesCount,          \* the locals of train()
  ranksTotal,
  crafter,              \* *myWeightsCrafterPointer
  \* SupervisedNetworkEvent, for each event
  matrixDigraphsCount,
  appliedWeights,       \* the weights its sink values were last computed from
  desiredMatrixDigraphRank,
  ranksOfWeights,       \* the rank it computes from each weights vector applied so far
  evaluationsCount,     \* how many times its applyWeights() was called
  myMatrixDigraphs,     \* its matrix digraphs, in the order of myMatrixDigraphPointers
  myDesiredMatrixDigraphIndex,
  matrixDigraphPointer, \* where the for loop of its applyWeights() is, while it runs
  \* LogarithmicMatrixDigraph
  matrixDigraph,        \* one matrix digraph and the weights of its weights crafter
  \* the weights file written by writeWeightsToFile()
  weightsFile,
  \* the event file that buildMatrixDigraphs() is given, or the one of each event
  eventFile,
  myVector,             \* Array: the vector of each array of the test cases
  \* history of the trainer
  weightsFileWasRead,   \* whether readWeightsFromFile() loaded the initial weights
  stopCalled,           \* whether stop() was called
  batchesCount,         \* how many evaluation batches were started
  retriesCount,         \* how many turns the while loop of the crafter's call has made
  lastCycle             \* what the last completed comparison of ranks did

poolVars == <<myErrandsLeftCount, myMustDie, myErrandsQueue, goferPc, goferErrand>>
clientVars == <<clientPc, clientCv, clientResult>>
historyVars == <<enqueuedCount, startedCount, completedCount>>
trainerVars == <<myMaximumTrainingCyclesCount, myAlive, hasGoferThreadsPool, cyclesCount,
                 ranksTotal>>
digraphVars == <<myMatrixDigraphs, myDesiredMatrixDigraphIndex, matrixDigraphPointer,
                 matrixDigraph>>
eventVars == <<matrixDigraphsCount, appliedWeights, desiredMatrixDigraphRank, ranksOfWeights,
               evaluationsCount, digraphVars>>
trainerHistoryVars == <<weightsFileWasRead, stopCalled, batchesCount, retriesCount, lastCycle>>
trainVars == <<trainerVars, crafter, eventVars, weightsFile, eventFile, myVector, trainerHistoryVars>>
vars == <<poolVars, clientVars, historyVars, trainVars>>

(***************************************************************************)
(* GoferThreadsPool                                                        *)
(***************************************************************************)
CallableErrandsMutant(container) == container
RECURSIVE CallableErrands(_)
\* The callable errands of a container, in the container's order.
CallableErrands(container) ==
  IF container = <<>> THEN <<>>
  ELSE IF Head(container) # EmptyErrand
       THEN <<Head(container)>> \o CallableErrands(Tail(container))
       ELSE CallableErrands(Tail(container))

RECURSIVE CountIn(_, _)
\* How many elements of a sequence equal e.
CountIn(e, sequence) ==
  IF sequence = <<>> THEN 0
  ELSE (IF Head(sequence) = e THEN 1 ELSE 0) + CountIn(e, Tail(sequence))

\* condition_variable_any::notify_all() on a condition variable's waiters.
NotifyAllClients == IF clientCv = "waiting" THEN "woken" ELSE clientCv

\* myGoferThreadsConditionVariable.notify_all(): every waiting gofer is woken.
NotifyAllGofersMutant == UNCHANGED goferPc
NotifyAllGofers ==
  goferPc' = [g \in Gofers |-> IF goferPc[g] = "waiting" THEN "woken" ELSE goferPc[g]]

\* myGoferThreadsConditionVariable.notify_one(): one waiting gofer, if any, is woken.
NotifyOneGofer ==
  IF \E g \in Gofers : goferPc[g] = "waiting"
  THEN \E g \in Gofers : /\ goferPc[g] = "waiting"
                         /\ goferPc' = [goferPc EXCEPT ![g] = "woken"]
  ELSE UNCHANGED goferPc

\* The constructor: the gofer threads are created and have not run yet.
PoolConstructed ==
  /\ myErrandsLeftCount = 0
  /\ myMustDie = FALSE
  /\ myErrandsQueue = <<>>
  /\ goferPc = [g \in Gofers |-> "start"]
  /\ goferErrand = [g \in Gofers |-> NoErrand]

HistoryInit ==
  /\ enqueuedCount = [e \in Errands |-> 0]
  /\ startedCount = [e \in Errands |-> 0]
  /\ completedCount = [e \in Errands |-> 0]

\* goferThreadMethod(), first lock guard context: "simulate that an errand was just run".
ErrandsLeftAfterStartMutant == myErrandsLeftCount
ErrandsLeftAfterStart == myErrandsLeftCount + 1

GoferStart(g) ==
  /\ UNCHANGED trainVars
  /\ goferPc[g] = "start"
  /\ myErrandsLeftCount' = ErrandsLeftAfterStart
  /\ goferPc' = [goferPc EXCEPT ![g] = "loop"]
  /\ UNCHANGED <<myMustDie, myErrandsQueue, goferErrand, clientVars, historyVars>>

\* The errand a gofer takes from the queue, and the queue it leaves.
PoppedErrandMutant == myErrandsQueue[Len(myErrandsQueue)]
PoppedErrand == Head(myErrandsQueue)
QueueAfterPopMutant == myErrandsQueue
QueueAfterPop == Tail(myErrandsQueue)

\* The look-for-an-errand-to-run loop, entered under myMutex with 'count' errands left:
\* return if myMustDie, break with the queue's front, or notify the clients and wait.
LookForAnErrandToRun(g, count) ==
  /\ myErrandsLeftCount' = count
  /\ UNCHANGED <<myMustDie, clientPc, clientResult, enqueuedCount, completedCount>>
  /\ IF myMustDie
     THEN /\ goferPc' = [goferPc EXCEPT ![g] = "dead"]
          /\ UNCHANGED <<myErrandsQueue, goferErrand, clientCv, startedCount>>
     ELSE IF count # 0 /\ myErrandsQueue # <<>>
     THEN /\ goferErrand' = [goferErrand EXCEPT ![g] = PoppedErrand]
          /\ myErrandsQueue' = QueueAfterPop
          /\ startedCount' = [startedCount EXCEPT ![PoppedErrand] = @ + 1]
          /\ goferPc' = [goferPc EXCEPT ![g] = "run"]
          /\ UNCHANGED clientCv
     ELSE /\ clientCv' = IF count = 0 THEN NotifyAllClients ELSE clientCv
          /\ goferPc' = [goferPc EXCEPT ![g] = "waiting"]
          /\ UNCHANGED <<myErrandsQueue, goferErrand, startedCount>>

\* The count a gofer leaves after "one errand was just ran by me".
ErrandsLeftAfterRunMutant == myErrandsLeftCount
ErrandsLeftAfterRun == myErrandsLeftCount - 1

\* Top of the run-errands loop: lock, --myErrandsLeftCount, look for an errand.
GoferLoop(g) ==
  /\ UNCHANGED trainVars
  /\ goferPc[g] = "loop"
  /\ LookForAnErrandToRun(g, ErrandsLeftAfterRun)

\* Return from myGoferThreadsConditionVariable.wait(myMutex), with myMutex held again.
GoferWake(g) ==
  /\ UNCHANGED trainVars
  /\ goferPc[g] = "woken"
  /\ LookForAnErrandToRun(g, myErrandsLeftCount)

\* wait() may return without a notification (spurious wake-up).
GoferSpuriousWake(g) ==
  /\ UNCHANGED trainVars
  /\ goferPc[g] = "waiting"
  /\ goferPc' = [goferPc EXCEPT ![g] = "woken"]
  /\ UNCHANGED <<myErrandsLeftCount, myMustDie, myErrandsQueue, goferErrand,
                 clientVars, historyVars>>

\* errand() of a test errand, run out of the lock guard context.
GoferRunErrand(g) ==
  /\ UNCHANGED trainVars
  /\ goferPc[g] = "run"
  /\ completedCount' = [completedCount EXCEPT ![goferErrand[g]] = @ + 1]
  /\ goferPc' = [goferPc EXCEPT ![g] = "loop"]
  /\ UNCHANGED <<myErrandsLeftCount, myMustDie, myErrandsQueue, goferErrand,
                 clientVars, enqueuedCount, startedCount>>

\* The predicate of the clients' wait: [this]() { return not myErrandsLeftCount; }.
AllErrandsCompletedMutant == myErrandsQueue = <<>>
AllErrandsCompleted == myErrandsLeftCount = 0

\* The count of errands left once errandsEnqueuedCount errands were queued in.
ErrandsLeftWithMutant(errandsEnqueuedCount) == myErrandsLeftCount
ErrandsLeftWith(errandsEnqueuedCount) == myErrandsLeftCount + errandsEnqueuedCount

\* privateEnQueueErrand(errand), up to the end of its lock guard context.
EnQueueErrand(errand, notifyPc, returnPc) ==
  IF errand # EmptyErrand
  THEN /\ myErrandsQueue' = Append(myErrandsQueue, errand)
       /\ myErrandsLeftCount' = ErrandsLeftWith(1)
       /\ enqueuedCount' = [enqueuedCount EXCEPT ![errand] = @ + 1]
       /\ clientResult' = 1
       /\ clientPc' = notifyPc
       /\ UNCHANGED <<myMustDie, goferPc, goferErrand, clientCv, startedCount, completedCount>>
  ELSE /\ clientResult' = 0
       /\ clientPc' = returnPc
       /\ UNCHANGED <<poolVars, clientCv, historyVars>>

\* enQueueErrands(errandsContainer), up to the end of its lock guard context.
EnQueueErrands(container, notifyPc, returnPc) ==
  LET callable == CallableErrands(container)
      errandsEnqueuedCount == Len(callable)
  IN /\ clientResult' = errandsEnqueuedCount
     /\ IF container # <<>>
        THEN /\ myErrandsQueue' = myErrandsQueue \o callable
             /\ myErrandsLeftCount' = ErrandsLeftWith(errandsEnqueuedCount)
             /\ enqueuedCount' =
                  [e \in Errands |-> enqueuedCount[e] + CountIn(e, callable)]
             /\ clientPc' = notifyPc
             /\ UNCHANGED <<myMustDie, goferPc, goferErrand, clientCv,
                            startedCount, completedCount>>
        ELSE /\ clientPc' = returnPc
             /\ UNCHANGED <<poolVars, clientCv, historyVars>>

\* The notification that follows the lock guard context of enQueueErrand[s]().
NotifyGofers(notifyPc, returnPc) ==
  /\ clientPc = notifyPc
  /\ IF clientResult > 1 THEN NotifyAllGofers
     ELSE IF clientResult # 0 THEN NotifyOneGofer
     ELSE UNCHANGED goferPc
  /\ clientPc' = returnPc
  /\ UNCHANGED <<myErrandsLeftCount, myMustDie, myErrandsQueue, goferErrand,
                 clientCv, clientResult, historyVars>>

\* waitForAllErrandsToComplete(): lock, then wait(myMutex, predicate); the predicate
\* is evaluated on entry (callPc) and after every return of the inner wait (waitPc).
WaitForAllErrandsToComplete(callPc, waitPc, returnPc) ==
  /\ \/ clientPc = callPc /\ clientCv = "running"
     \/ clientPc = waitPc /\ clientCv = "woken"
  /\ IF AllErrandsCompleted
     THEN /\ clientPc' = returnPc
          /\ clientCv' = "running"
     ELSE /\ clientPc' = waitPc
          /\ clientCv' = "waiting"
  /\ UNCHANGED <<poolVars, clientResult, historyVars>>

ClientSpuriousWake ==
  /\ UNCHANGED trainVars
  /\ clientCv = "waiting"
  /\ clientCv' = "woken"
  /\ UNCHANGED <<poolVars, clientPc, clientResult, historyVars>>

(***************************************************************************)
(* WeightsCrafter and GeometricWeightsCrafter.  A crafter is a record of   *)
(* its instance variables; myWeights and myBestWeights are indexed from 0  *)
(* as in the code, and the alterings hold the indexes that precede the     *)
(* InvalidIndex terminator with the direction of each.                     *)
(* myAlteringsPNumerator is not kept: it only sets the parameter of the    *)
(* geometric distribution, which stays in [0.1 / myWeightsCount, 0.99], so *)
(* that every maximum weights interval can be drawn at every call.         *)
(***************************************************************************)
MinimumWeight == -32768
MaximumWeight == 32767
WeightsCardinality == MaximumWeight + 1 - MinimumWeight
MaximumWeightDelta == WeightsCardinality - 1
MaximumWeightDeltaDelta == MaximumWeightDelta \div 1000

\* The values of (*myRandomIntegerPointer)() % modulus that the model draws:
\* the MaxRandom + 1 smallest and the MaxRandom + 1 largest.
MaxRandom == 0
RandomModulo(modulus) ==
  (0..(IF MaxRandom < modulus - 1 THEN MaxRandom ELSE modulus - 1))
    \cup ((IF modulus - 1 - MaxRandom > 0 THEN modulus - 1 - MaxRandom ELSE 0)..(modulus - 1))

\* The weights a weights file holds, for each of its weights.
FileWeights == {0}

WeightIndexes(c) == 0..(c.myWeightsCount - 1)

\* rememberWeights()
RememberWeightsMutant(c) == c
RememberWeights(c) == [c EXCEPT !.myBestWeights = c.myWeights]

\* bringBackBestWeights()
BringBackBestWeightsMutant(c) == c
BringBackBestWeights(c) == [c EXCEPT !.myWeights = c.myBestWeights]

RECURSIVE AlterWeightsIndexesFrom(_, _, _)
\* The indexes the for loop of randomizeAlterings() visits from weightsIndex on.
AlterWeightsIndexesFrom(weightsIndex, interval, weightsCount) ==
  IF weightsIndex < weightsCount
  THEN UNION {{<<weightsIndex>> \o rest :
                 rest \in AlterWeightsIndexesFrom(weightsIndex + stride + 1, interval,
                                                  weightsCount)} :
              stride \in RandomModulo(interval)}
  ELSE {<<>>}

\* randomizeAlterings(), its first two statements: not crawling to a local maximum
\* (anymore), and newly created alterings do not yet improve the weights.
NotCrawlingMutant(c) == c
NotCrawling(c) ==
  [c EXCEPT !.myCrawlToLocalMaximum = FALSE, !.myWeightsPreviouslyImproved = FALSE]

\* randomizeAlterings(): the directions myRandomBoolean() can draw for the alterings.
RandomAlterDirectionsMutant(plan) == [1..Len(plan) -> {TRUE}]
RandomAlterDirections(plan) == [1..Len(plan) -> BOOLEAN]

\* randomizeAlterings(): every crafter it can leave.
RandomizeAlterings(c) ==
  UNION {
    LET interval == IF geometric + 1 > c.myWeightsCount THEN c.myWeightsCount
                    ELSE geometric + 1
        indexes == IF interval > 1
                   THEN UNION {AlterWeightsIndexesFrom(first, interval, c.myWeightsCount) :
                               first \in RandomModulo(interval)}
                   ELSE {[i \in 1..c.myWeightsCount |-> i - 1]}
    IN UNION {{[NotCrawling(c) EXCEPT !.myMaximumWeightsInterval = interval,
                                      !.myAlterWeightsIndexes = plan,
                                      !.myAlterDirections = directions] :
                 directions \in RandomAlterDirections(plan)} :
              plan \in indexes}
    : geometric \in 0..c.myWeightsCount}

\* WeightCalculator is int32_t: its values. A newWeight is computed within them, as
\* C16 checks.
MaximumWeightCalculator == 2147483647
MinimumWeightCalculator == -MaximumWeightCalculator - 1

\* static_cast<Weight>(newWeight): Weight is int16_t.
InWeight(newWeight) == ((newWeight - MinimumWeight) % WeightsCardinality) + MinimumWeight

\* alterWeights(): the weight it stores for the newWeight it computed.
StoredWeightMutant(newWeight, direction) == InWeight(newWeight)
StoredWeight(newWeight, direction) ==
  IF direction
  THEN IF newWeight >= MaximumWeight THEN MaximumWeight ELSE InWeight(newWeight)
  ELSE IF newWeight <= MinimumWeight THEN MinimumWeight ELSE InWeight(newWeight)

\* One weight of alterWeights(): the weight it leaves for a drawn delta, which is 1
\* when it crawls.
AlteredWeightMutant(weight, direction, delta) ==
  IF weight < MaximumWeight THEN StoredWeight(weight + delta, TRUE) ELSE weight
AlteredWeight(weight, direction, delta) ==
  IF direction
  THEN IF weight < MaximumWeight
       THEN StoredWeight(weight + delta, direction)
       ELSE weight
  ELSE IF weight > MinimumWeight
       THEN StoredWeight(weight - delta, direction)
       ELSE weight

\* Whether alterWeights() clears noWeightWasAltered for this weight.
WeightIsAlteredMutant(weight, direction) == TRUE
WeightIsAltered(weight, direction) ==
  IF direction THEN weight < MaximumWeight ELSE weight > MinimumWeight

\* The deltas alterWeights() can draw for one weight.
WeightDeltasMutant(c, maximumWeightDelta) == {2}
WeightDeltas(c, maximumWeightDelta) ==
  IF c.myCrawlToLocalMaximum THEN {1}
  ELSE {r + 1 : r \in RandomModulo(maximumWeightDelta)}

\* Position of weightsIndex in the alterings, 0 if it is not altered.
AlteringOfMutant(c, weightsIndex) == 1
AlteringOf(c, weightsIndex) ==
  IF \E k \in 1..Len(c.myAlterWeightsIndexes) : c.myAlterWeightsIndexes[k] = weightsIndex
  THEN CHOOSE k \in 1..Len(c.myAlterWeightsIndexes) :
         c.myAlterWeightsIndexes[k] = weightsIndex
  ELSE 0

\* The value of noWeightWasAltered that alterWeights() returns.
NoWeightWasAltered(c) ==
  \A k \in 1..Len(c.myAlterWeightsIndexes) :
    ~WeightIsAltered(c.myWeights[c.myAlterWeightsIndexes[k]], c.myAlterDirections[k])

\* The weightDeltaDelta alterWeights() can draw when it does not crawl: the model
\* follows the largest draws only, the smaller ones make myMaximumWeightDelta
\* decrease more slowly and decide nothing else.
WeightDeltaDeltas ==
  {r + 1 : r \in {q \in RandomModulo(MaximumWeightDeltaDelta) :
                    q >= MaximumWeightDeltaDelta - 1 - MaxRandom}}

\* myMaximumWeightDelta after alterWeights() drew weightDeltaDelta.
NextMaximumWeightDeltaMutant(c, weightDeltaDelta) ==
  IF c.myCrawlToLocalMaximum THEN c.myMaximumWeightDelta
  ELSE IF weightDeltaDelta > c.myMaximumWeightDelta THEN MaximumWeightDelta
  ELSE c.myMaximumWeightDelta - weightDeltaDelta
NextMaximumWeightDelta(c, weightDeltaDelta) ==
  IF c.myCrawlToLocalMaximum THEN c.myMaximumWeightDelta
  ELSE IF weightDeltaDelta + 2 > c.myMaximumWeightDelta THEN MaximumWeightDelta
  ELSE c.myMaximumWeightDelta - weightDeltaDelta

\* alterWeights(): every crafter it can leave; its return value is NoWeightWasAltered
\* of the crafter it is applied to.
AlterWeights(c) ==
  UNION {
    LET maximumWeightDelta == NextMaximumWeightDelta(c, weightDeltaDelta)
    IN {[c EXCEPT !.myMaximumWeightDelta = maximumWeightDelta,
                  !.myWeights =
                     [i \in WeightIndexes(c) |->
                        IF AlteringOf(c, i) = 0 THEN c.myWeights[i]
                        ELSE AlteredWeight(c.myWeights[i],
                                           c.myAlterDirections[AlteringOf(c, i)],
                                           deltas[i])]] :
          deltas \in [WeightIndexes(c) -> WeightDeltas(c, maximumWeightDelta)]}
    : weightDeltaDelta \in WeightDeltaDeltas}

\* WeightsCrafter(weightsCount): the weights the constructor can draw.
RandomizedWeights == {r + MinimumWeight : r \in RandomModulo(WeightsCardinality)}

\* myBestWeights(weightsCount): the best weights before rememberWeights() has set
\* them; their allocator constructs nothing, the model takes them as zeroes.
UnsetBestWeights(weightsCount) == [i \in 0..(weightsCount - 1) |-> 0]

\* GeometricWeightsCrafter(weightsCount): every crafter the constructor can leave.
GeometricWeightsCrafter(weightsCount) ==
  UNION {RandomizeAlterings(RememberWeights(
           [myWeightsCount |-> weightsCount,
            myWeights |-> weights,
            myBestWeights |-> UnsetBestWeights(weightsCount),
            myAlterWeightsIndexes |-> <<>>,
            myAlterDirections |-> <<>>,
            myMaximumWeightsInterval |-> 0,
            myMaximumWeightDelta |-> 0,
            myCrawlToLocalMaximum |-> FALSE,
            myWeightsPreviouslyImproved |-> FALSE])) :
         weights \in [0..(weightsCount - 1) -> RandomizedWeights]}

\* readWeightsFromFile() of a file of the right size that holds fileWeights.
ReadWeightsFromFileMutant(c, fileWeights) ==
  [c EXCEPT !.myWeights = fileWeights, !.myBestWeights = fileWeights]
ReadWeightsFromFile(c, fileWeights) == [c EXCEPT !.myWeights = fileWeights]

\* weightsImproved(), up to its while loop.
WeightsImproved(c) ==
  {[RememberWeights(c) EXCEPT !.myWeightsPreviouslyImproved = TRUE]}

\* weightsDidNotImprove(): the crawling alter directions, reversed.
ReversedAlterDirectionsMutant(c) == c.myAlterDirections
ReversedAlterDirections(c) ==
  [k \in 1..Len(c.myAlterWeightsIndexes) |-> ~c.myAlterDirections[k]]

\* weightsDidNotImprove(), up to its while loop.
WeightsDidNotImprove(c) ==
  LET best == BringBackBestWeights(c)
  IN IF best.myCrawlToLocalMaximum
     THEN IF best.myWeightsPreviouslyImproved
          THEN RandomizeAlterings(best)
          ELSE {[best EXCEPT !.myAlterDirections = ReversedAlterDirections(best),
                             !.myWeightsPreviouslyImproved = TRUE]}
     ELSE IF best.myWeightsPreviouslyImproved
          THEN {[best EXCEPT !.myCrawlToLocalMaximum = TRUE,
                             !.myWeightsPreviouslyImproved = FALSE]}
          ELSE RandomizeAlterings(best)

\* The while loop of a call of the crafter is followed for MaxRetries turns at most.
MaxRetries == 1

\* The first alterWeights() of 'while (alterWeights()) randomizeAlterings();' on one
\* of the crafters 'prepared': the caller goes on at donePc if a weight was altered,
\* and to the body of the loop if none was.
AlterWeightsOrRetry(prepared, retryPc, donePc, turn) ==
  \E c \in prepared :
    /\ NoWeightWasAltered(c) => turn < MaxRetries
    /\ crafter' \in AlterWeights(c)
    /\ clientPc' = IF NoWeightWasAltered(c) THEN retryPc ELSE donePc
    /\ retriesCount' = IF NoWeightWasAltered(c) THEN turn ELSE 0

\* One more turn of the loop: randomizeAlterings(), then alterWeights() again.
RandomizeAlteringsAndRetry(retryPc, donePc) ==
  /\ clientPc = retryPc
  /\ AlterWeightsOrRetry(RandomizeAlterings(crafter), retryPc, donePc, retriesCount + 1)

(***************************************************************************)
(* The pool under a client that calls its public methods in any order, as  *)
(* the test cases of testUtilities.cpp do.                                 *)
(***************************************************************************)
ErrandValues == Errands \cup {EmptyErrand}
Containers == UNION {[1..n -> ErrandValues] : n \in 0..MaxContainerSize}

RECURSIVE SumOver(_, _)
SumOver(f, S) ==
  IF S = {} THEN 0
  ELSE LET x == CHOOSE y \in S : TRUE IN f[x] + SumOver(f, S \ {x})

EnqueuedTotal == SumOver(enqueuedCount, Errands)

\* The matrix digraphs are not followed one by one: what an event computes from
\* them is kept in matrixDigraphsCount and ranksOfWeights.
NoMatrixDigraphs ==
  /\ myMatrixDigraphs = <<>>
  /\ myDesiredMatrixDigraphIndex = <<>>
  /\ matrixDigraphPointer = <<>>
  /\ matrixDigraph = <<>>

\* lastCycle before any comparison of ranks and any call of the crafter.
NoCycle == [called |-> "none"]

\* The test client owns no trainer: a pool and its errands alone.
NoTrainer ==
  /\ myMaximumTrainingCyclesCount = 0
  /\ myAlive = FALSE
  /\ hasGoferThreadsPool = TRUE
  /\ cyclesCount = 0
  /\ ranksTotal = 0
  /\ crafter = <<>>
  /\ matrixDigraphsCount = <<>>
  /\ appliedWeights = <<>>
  /\ desiredMatrixDigraphRank = <<>>
  /\ ranksOfWeights = <<>>
  /\ evaluationsCount = <<>>
  /\ NoMatrixDigraphs
  /\ weightsFile = <<>>
  /\ eventFile = <<>>
  /\ myVector = <<>>
  /\ weightsFileWasRead = FALSE
  /\ stopCalled = FALSE
  /\ batchesCount = 0
  /\ retriesCount = 0
  /\ lastCycle = NoCycle

PoolInit ==
  /\ PoolConstructed
  /\ NoTrainer
  /\ HistoryInit
  /\ clientPc = "idle"
  /\ clientCv = "running"
  /\ clientResult = 0

\* p.enQueueErrand(errand), of a callable or of an empty errand.
ClientEnQueueErrand ==
  /\ UNCHANGED trainVars
  /\ clientPc = "idle"
  /\ \E errand \in ErrandValues :
       /\ EnqueuedTotal < MaxEnqueuedErrands
       /\ EnQueueErrand(errand, "notify", "idle")

\* p.enQueueErrands(errands).
ClientEnQueueErrands ==
  /\ UNCHANGED trainVars
  /\ clientPc = "idle"
  /\ \E container \in Containers :
       /\ EnqueuedTotal + Len(container) <= MaxEnqueuedErrands
       /\ EnQueueErrands(container, "notify", "idle")

ClientNotifyGofers ==
  /\ NotifyGofers("notify", "idle")
  /\ UNCHANGED trainVars

\* p.waitForAllErrandsToComplete().
ClientWaitForAllErrandsToComplete ==
  /\ WaitForAllErrandsToComplete("idle", "wait", "returned")
  /\ UNCHANGED trainVars

\* The statement after p.waitForAllErrandsToComplete().
ClientResume ==
  /\ UNCHANGED trainVars
  /\ clientPc = "returned"
  /\ clientPc' = "idle"
  /\ UNCHANGED <<poolVars, clientCv, clientResult, historyVars>>

\* ~GoferThreadsPool(), its lock guard context: myMustDie = true.
DestructorSetMustDie ==
  /\ UNCHANGED trainVars
  /\ clientPc = "idle"
  /\ myMustDie' = TRUE
  /\ clientPc' = "destroy"
  /\ UNCHANGED <<myErrandsLeftCount, myErrandsQueue, goferPc, goferErrand,
                 clientCv, clientResult, historyVars>>

\* ~GoferThreadsPool(): myGoferThreadsConditionVariable.notify_all().
DestructorNotifyAll ==
  /\ UNCHANGED trainVars
  /\ clientPc = "destroy"
  /\ NotifyAllGofers
  /\ clientPc' = "join"
  /\ UNCHANGED <<myErrandsLeftCount, myMustDie, myErrandsQueue, goferErrand,
                 clientCv, clientResult, historyVars>>

\* goferThread.join() of every gofer thread returns once the thread has returned
\* from goferThreadMethod().
GofersJoinedMutant == TRUE
GofersJoined == \A g \in Gofers : goferPc[g] = "dead"

\* ~GoferThreadsPool(): every gofer thread was joined.
DestructorJoin ==
  /\ UNCHANGED trainVars
  /\ clientPc = "join"
  /\ GofersJoined
  /\ clientPc' = "destroyed"
  /\ UNCHANGED <<poolVars, clientCv, clientResult, historyVars>>

GoferStep ==
  \E g \in Gofers :
    \/ GoferStart(g)
    \/ GoferLoop(g)
    \/ GoferWake(g)
    \/ GoferRunErrand(g)

SpuriousWake ==
  \/ \E g \in Gofers : GoferSpuriousWake(g)
  \/ ClientSpuriousWake

PoolNext ==
  \/ GoferStep
  \/ SpuriousWake
  \/ ClientEnQueueErrand
  \/ ClientEnQueueErrands
  \/ ClientNotifyGofers
  \/ ClientWaitForAllErrandsToComplete
  \/ ClientResume
  \/ DestructorSetMustDie
  \/ DestructorNotifyAll
  \/ DestructorJoin

PoolSpec == PoolInit /\ [][PoolNext]_vars

\* The re-evaluation of the predicate by a client that waitForAllErrandsToComplete()
\* has blocked.
ClientWaitReturn ==
  /\ clientPc = "wait"
  /\ ClientWaitForAllErrandsToComplete

\* Fair scheduling: a thread that can take a step of the pool's code does take it.
\* What the client calls next, and spurious wake-ups, are under no such obligation.
PoolFairness ==
  /\ \A g \in Gofers :
       WF_vars(GoferStart(g) \/ GoferLoop(g) \/ GoferWake(g) \/ GoferRunErrand(g))
  /\ WF_vars(ClientNotifyGofers)
  /\ WF_vars(ClientWaitReturn)
  /\ WF_vars(DestructorNotifyAll)
  /\ WF_vars(DestructorJoin)

PoolLiveSpec == PoolInit /\ [][PoolNext]_vars /\ PoolFairness

(***************************************************************************)
(* SupervisedNetworkTrainer, from the moment main() has installed the      *)
(* signal handlers.  The inputs of the events are not kept: the sink       *)
(* values of an event are a function of its immutable inputs and of the    *)
(* weights, so the rank an event computes from a weights vector is chosen  *)
(* when that vector is first applied to it and is the same ever after.     *)
(***************************************************************************)
\* Largest <maximum number of training cycles> given on the command line.
MaxTrainingCycles == 2
\* Largest number of matrix digraphs of an event.
MaxMatrixDigraphsCount == 2
\* The common required weights count of the events.
TrainerWeightsCount == 1

NoWeightsFile == <<>>

WeightsVectors(weightsCount) == [0..(weightsCount - 1) -> FileWeights]

\* The command line's <number of training threads> makes a pool unless it is 1,
\* and populateFromArguments() makes one only for more than one training cycle.
TrainerInit ==
  /\ myMaximumTrainingCyclesCount \in 1..MaxTrainingCycles
  /\ myAlive = FALSE
  /\ hasGoferThreadsPool \in IF myMaximumTrainingCyclesCount > 1 THEN BOOLEAN ELSE {FALSE}
  /\ cyclesCount = 0
  /\ ranksTotal = 0
  /\ weightsFileWasRead \in BOOLEAN
  /\ crafter \in IF weightsFileWasRead
                 THEN {ReadWeightsFromFile(c, fileWeights) :
                         c \in GeometricWeightsCrafter(TrainerWeightsCount),
                         fileWeights \in WeightsVectors(TrainerWeightsCount)}
                 ELSE GeometricWeightsCrafter(TrainerWeightsCount)
  /\ matrixDigraphsCount \in [Errands -> 1..MaxMatrixDigraphsCount]
  /\ appliedWeights = [e \in Errands |-> <<>>]
  /\ desiredMatrixDigraphRank = [e \in Errands |-> 0]
  /\ ranksOfWeights = [e \in Errands |-> <<>>]
  /\ evaluationsCount = [e \in Errands |-> 0]
  /\ NoMatrixDigraphs
  /\ weightsFile = NoWeightsFile
  /\ eventFile = <<>>
  /\ myVector = <<>>
  /\ stopCalled = FALSE
  /\ batchesCount = 0
  /\ retriesCount = 0
  /\ lastCycle = NoCycle
  /\ myErrandsLeftCount = 0
  /\ myMustDie = FALSE
  /\ myErrandsQueue = <<>>
  /\ goferPc = [g \in Gofers |-> IF hasGoferThreadsPool THEN "start" ELSE "none"]
  /\ goferErrand = [g \in Gofers |-> NoErrand]
  /\ HistoryInit
  /\ clientPc = "main"
  /\ clientCv = "running"
  /\ clientResult = 0

\* SupervisedNetworkEvent::applyWeights() of the events in 'events', with the ranks
\* that desiredMatrixDigraphRank() then computes from their sink values.
ApplyWeights(events) ==
  \E ranks \in [events -> 1..MaxMatrixDigraphsCount] :
    /\ \A e \in events :
         /\ ranks[e] <= matrixDigraphsCount[e]
         /\ crafter.myWeights \in DOMAIN ranksOfWeights[e]
              => ranks[e] = ranksOfWeights[e][crafter.myWeights]
    /\ appliedWeights' =
         [e \in Errands |-> IF e \in events THEN crafter.myWeights ELSE appliedWeights[e]]
    /\ desiredMatrixDigraphRank' =
         [e \in Errands |-> IF e \in events THEN ranks[e] ELSE desiredMatrixDigraphRank[e]]
    /\ ranksOfWeights' =
         [e \in Errands |->
            IF e \in events
            THEN [w \in DOMAIN ranksOfWeights[e] \cup {crafter.myWeights} |->
                    IF w = crafter.myWeights THEN ranks[e] ELSE ranksOfWeights[e][w]]
            ELSE ranksOfWeights[e]]
    /\ evaluationsCount' =
         [e \in Errands |-> IF e \in events THEN evaluationsCount[e] + 1
                            ELSE evaluationsCount[e]]
    /\ UNCHANGED <<matrixDigraphsCount, digraphVars>>

\* The errand of train(): [&supervisedNetworkEvent]() { supervisedNetworkEvent.applyWeights(); }
GoferApplyWeights(g) ==
  /\ goferPc[g] = "run"
  /\ ApplyWeights({goferErrand[g]})
  /\ completedCount' = [completedCount EXCEPT ![goferErrand[g]] = @ + 1]
  /\ goferPc' = [goferPc EXCEPT ![g] = "loop"]
  /\ UNCHANGED <<myErrandsLeftCount, myMustDie, myErrandsQueue, goferErrand, clientVars,
                 enqueuedCount, startedCount, trainerVars, crafter, weightsFile, eventFile, myVector,
                 trainerHistoryVars>>

\* stop(), called by the handler of SIGABRT, SIGINT or SIGTERM; a call that finds
\* myAlive false after an earlier call changes nothing.
Stop ==
  /\ clientPc # "done"
  /\ myAlive \/ ~stopCalled
  /\ myAlive' = FALSE
  /\ stopCalled' = TRUE
  /\ UNCHANGED <<poolVars, clientVars, historyVars, myMaximumTrainingCyclesCount,
                 hasGoferThreadsPool, cyclesCount, ranksTotal, crafter, eventVars,
                 weightsFile, eventFile, myVector, weightsFileWasRead, batchesCount, retriesCount, lastCycle>>

\* The ranks total train() starts from: the sum of the matrixDigraphsCount().
MaximumRanksTotal == SumOver(matrixDigraphsCount, Errands)

\* run() up to the loop of train(), or to the final applyWeights() if it does not train.
Run ==
  /\ clientPc = "main"
  /\ IF myMaximumTrainingCyclesCount > 1
     THEN /\ myAlive' = TRUE
          /\ ranksTotal' = MaximumRanksTotal
          /\ cyclesCount' = 1
          /\ myMaximumTrainingCyclesCount' = myMaximumTrainingCyclesCount + 1
          /\ clientPc' = "loop"
     ELSE /\ clientPc' = "final"
          /\ UNCHANGED <<myAlive, ranksTotal, cyclesCount, myMaximumTrainingCyclesCount>>
  /\ UNCHANGED <<poolVars, clientCv, clientResult, historyVars, hasGoferThreadsPool,
                 crafter, eventVars, weightsFile, eventFile, myVector, trainerHistoryVars>>

ranksCount == EventsCount

\* The condition of the for loop of train().
TrainingGoesOnMutant ==
  /\ myAlive
  /\ cyclesCount # myMaximumTrainingCyclesCount
TrainingGoesOn ==
  /\ myAlive
  /\ cyclesCount # myMaximumTrainingCyclesCount
  /\ ranksTotal > ranksCount

\* The test of the for loop: one more batch, or out of the loop.
LoopCondition ==
  /\ clientPc = "loop"
  /\ IF TrainingGoesOn
     THEN /\ clientPc' = "batch"
          /\ batchesCount' = batchesCount + 1
     ELSE /\ clientPc' = "exit"
          /\ UNCHANGED batchesCount
  /\ UNCHANGED <<poolVars, clientCv, clientResult, historyVars, trainerVars, crafter,
                 eventVars, weightsFile, eventFile, myVector, weightsFileWasRead, stopCalled, retriesCount,
                 lastCycle>>

\* The errands vector of train(): one errand for each event.
errands == [e \in 1..EventsCount |-> e]

\* myGoferThreadsPoolPointer->enQueueErrands(errands), its lock guard context.
BatchEnQueueErrands ==
  /\ clientPc = "batch"
  /\ hasGoferThreadsPool
  /\ EnQueueErrands(errands, "notify", "wait")
  /\ UNCHANGED trainVars

BatchNotifyGofers ==
  /\ NotifyGofers("notify", "wait")
  /\ UNCHANGED trainVars

\* myGoferThreadsPoolPointer->waitForAllErrandsToComplete()
BatchWaitForAllErrandsToComplete ==
  /\ WaitForAllErrandsToComplete("wait", "waiting", "ranks")
  /\ UNCHANGED trainVars

\* Without a pool: applyWeights() of every event on the main thread.
BatchOnMainThread ==
  /\ clientPc = "batch"
  /\ ~hasGoferThreadsPool
  /\ ApplyWeights(Errands)
  /\ clientPc' = "ranks"
  /\ UNCHANGED <<poolVars, clientCv, clientResult, historyVars, trainerVars, crafter,
                 weightsFile, eventFile, myVector, trainerHistoryVars>>

newRanksTotal == SumOver(desiredMatrixDigraphRank, Errands)

\* bool const ranksDecreased{ newRanksTotal < ranksTotal };
ranksDecreasedMutant == newRanksTotal <= ranksTotal
ranksDecreased == newRanksTotal < ranksTotal

\* The comparison of the ranks and the call of the weights crafter that follows it.
CompareRanks ==
  /\ clientPc = "ranks"
  /\ IF ranksDecreased
     THEN /\ ranksTotal' = newRanksTotal
          /\ AlterWeightsOrRetry(WeightsImproved(crafter), "retry", "next", 0)
     ELSE /\ UNCHANGED ranksTotal
          /\ AlterWeightsOrRetry(WeightsDidNotImprove(crafter), "retry", "next", 0)
  /\ lastCycle' = [ranksTotalBefore |-> ranksTotal,
                   newRanksTotal |-> newRanksTotal,
                   ranksTotalAfter |-> ranksTotal',
                   weights |-> crafter.myWeights,
                   called |-> IF ranksDecreased THEN "weightsImproved"
                              ELSE "weightsDidNotImprove"]
  /\ UNCHANGED <<poolVars, clientCv, clientResult, historyVars,
                 myMaximumTrainingCyclesCount, myAlive, hasGoferThreadsPool, cyclesCount,
                 eventVars, weightsFile, eventFile, myVector, weightsFileWasRead, stopCalled, batchesCount>>

\* 'while (alterWeights()) randomizeAlterings();' of the call made by CompareRanks.
CrafterRetry ==
  /\ RandomizeAlteringsAndRetry("retry", "next")
  /\ UNCHANGED <<poolVars, clientCv, clientResult, historyVars, trainerVars, eventVars,
                 weightsFile, eventFile, myVector, weightsFileWasRead, stopCalled, batchesCount, lastCycle>>

\* ++cyclesCount of the for loop.
NextCycle ==
  /\ clientPc = "next"
  /\ cyclesCount' = cyclesCount + 1
  /\ clientPc' = "loop"
  /\ UNCHANGED <<poolVars, clientCv, clientResult, historyVars,
                 myMaximumTrainingCyclesCount, myAlive, hasGoferThreadsPool, ranksTotal,
                 crafter, eventVars, weightsFile, eventFile, myVector, trainerHistoryVars>>

\* After the loop: bringBackBestWeights(), then writeWeightsToFile(), which writes
\* myWeights unless the file cannot be created or written.
SaveWeights ==
  /\ clientPc = "exit"
  /\ cyclesCount' = cyclesCount - 1
  /\ myMaximumTrainingCyclesCount' = myMaximumTrainingCyclesCount - 1
  /\ crafter' = BringBackBestWeights(crafter)
  /\ weightsFile' \in {crafter'.myWeights, NoWeightsFile}
  /\ myAlive' = FALSE
  /\ clientPc' = "final"
  /\ UNCHANGED <<poolVars, clientCv, clientResult, historyVars, hasGoferThreadsPool,
                 ranksTotal, eventVars, eventFile, myVector, trainerHistoryVars>>

\* run() after train(): applyWeights() of every event, then the final ranks.
FinalRanks ==
  /\ clientPc = "final"
  /\ ApplyWeights(Errands)
  /\ clientPc' = "done"
  /\ UNCHANGED <<poolVars, clientCv, clientResult, historyVars, trainerVars, crafter,
                 weightsFile, eventFile, myVector, trainerHistoryVars>>

TrainerGoferStep ==
  \E g \in Gofers :
    \/ GoferStart(g)
    \/ GoferLoop(g)
    \/ GoferWake(g)
    \/ GoferApplyWeights(g)

TrainerNext ==
  \/ TrainerGoferStep
  \/ SpuriousWake
  \/ Stop
  \/ Run
  \/ LoopCondition
  \/ BatchEnQueueErrands
  \/ BatchNotifyGofers
  \/ BatchWaitForAllErrandsToComplete
  \/ BatchOnMainThread
  \/ CompareRanks
  \/ CrafterRetry
  \/ NextCycle
  \/ SaveWeights
  \/ FinalRanks

TrainerSpec == TrainerInit /\ [][TrainerNext]_vars

(***************************************************************************)
(* GeometricWeightsCrafter alone: constructed, its weights read from a     *)
(* weights file or not, and then called as train() calls it, in any order; *)
(* cyclesCount counts the calls, one for each cycle of a training.         *)
(***************************************************************************)
\* The weights count of the crafter that is called alone.
CrafterWeightsCount == 2
\* The calls of the crafter that are followed.
MaxCrafterCalls == 4

\* A crafter of weightsCount weights is constructed, and its weights are read from a
\* weights file or not; nothing else exists.
CrafterConstructed(weightsCount) ==
  /\ weightsFileWasRead \in BOOLEAN
  /\ crafter \in IF weightsFileWasRead
                 THEN {ReadWeightsFromFile(c, fileWeights) :
                         c \in GeometricWeightsCrafter(weightsCount),
                         fileWeights \in WeightsVectors(weightsCount)}
                 ELSE GeometricWeightsCrafter(weightsCount)
  /\ clientPc = "idle"
  /\ clientCv = "running"
  /\ clientResult = 0
  /\ myErrandsLeftCount = 0
  /\ myMustDie = FALSE
  /\ myErrandsQueue = <<>>
  /\ goferPc = [g \in Gofers |-> "none"]
  /\ goferErrand = [g \in Gofers |-> NoErrand]
  /\ HistoryInit
  /\ myMaximumTrainingCyclesCount = 0
  /\ myAlive = FALSE
  /\ hasGoferThreadsPool = FALSE
  /\ cyclesCount = 0
  /\ ranksTotal = 0
  /\ matrixDigraphsCount = <<>>
  /\ appliedWeights = <<>>
  /\ desiredMatrixDigraphRank = <<>>
  /\ ranksOfWeights = <<>>
  /\ evaluationsCount = <<>>
  /\ NoMatrixDigraphs
  /\ weightsFile = NoWeightsFile
  /\ eventFile = <<>>
  /\ myVector = <<>>
  /\ stopCalled = FALSE
  /\ batchesCount = 0
  /\ retriesCount = 0
  /\ lastCycle = NoCycle

CrafterInit == CrafterConstructed(CrafterWeightsCount)

\* What a call of the crafter leaves alone.
CrafterFrame ==
  UNCHANGED <<poolVars, clientCv, clientResult, historyVars, myMaximumTrainingCyclesCount,
              myAlive, hasGoferThreadsPool, ranksTotal, eventVars, weightsFile, eventFile, myVector,
              weightsFileWasRead, stopCalled, batchesCount>>

\* A call of the crafter starts: lastCycle.crafter is the crafter on entry.
CrafterIsCalled(called) ==
  /\ clientPc = "idle"
  /\ cyclesCount < MaxCrafterCalls
  /\ cyclesCount' = cyclesCount + 1
  /\ lastCycle' = [called |-> called, crafter |-> crafter]

\* weightsImproved(), up to the first test of its while loop.
CrafterWeightsImproved ==
  /\ CrafterIsCalled("weightsImproved")
  /\ AlterWeightsOrRetry(WeightsImproved(crafter), "retry", "returned", 0)
  /\ CrafterFrame

\* weightsDidNotImprove(), up to the first test of its while loop.
CrafterWeightsDidNotImprove ==
  /\ CrafterIsCalled("weightsDidNotImprove")
  /\ AlterWeightsOrRetry(WeightsDidNotImprove(crafter), "retry", "returned", 0)
  /\ CrafterFrame

\* One turn of the while loop of either call.
CrafterRetryLoop ==
  /\ RandomizeAlteringsAndRetry("retry", "returned")
  /\ UNCHANGED <<lastCycle, cyclesCount>>
  /\ CrafterFrame

\* bringBackBestWeights()
CrafterBringBackBestWeights ==
  /\ CrafterIsCalled("bringBackBestWeights")
  /\ crafter' = BringBackBestWeights(crafter)
  /\ clientPc' = "returned"
  /\ UNCHANGED retriesCount
  /\ CrafterFrame

\* The caller goes on after the call has returned.
CrafterReturn ==
  /\ clientPc = "returned"
  /\ clientPc' = "idle"
  /\ UNCHANGED <<crafter, lastCycle, cyclesCount, retriesCount>>
  /\ CrafterFrame

CrafterNext ==
  \/ CrafterWeightsImproved
  \/ CrafterWeightsDidNotImprove
  \/ CrafterRetryLoop
  \/ CrafterBringBackBestWeights
  \/ CrafterReturn

CrafterSpec == CrafterInit /\ [][CrafterNext]_vars

(***************************************************************************)
(* The while loop of the crafter, followed for as many turns as it takes:  *)
(* a crafter is constructed and called once. The random draws are fair: a  *)
(* turn that draws alterings which alter a weight is possible at every     *)
(* turn, and is not avoided forever.                                       *)
(***************************************************************************)
\* The calls of the crafter whose while loop is followed to its end.
MaxLoopingCrafterCalls == 1
\* The weights count of the crafter whose while loop is followed to its end.
LoopingWeightsCount == 1

CrafterLoopingInit == CrafterConstructed(LoopingWeightsCount)

\* while (alterWeights()) randomizeAlterings(): one turn, randomizeAlterings() and
\* the alterWeights() of the next test.
CrafterLoop ==
  /\ clientPc = "retry"
  /\ \E c \in RandomizeAlterings(crafter) :
       /\ crafter' \in AlterWeights(c)
       /\ clientPc' = IF NoWeightWasAltered(c) THEN "retry" ELSE "returned"
  /\ UNCHANGED <<lastCycle, cyclesCount, retriesCount>>
  /\ CrafterFrame

\* The turn that ends the loop: the alterings drawn alter a weight.
CrafterLoopEnds ==
  /\ CrafterLoop
  /\ clientPc' = "returned"

CrafterLoopingNext ==
  \/ cyclesCount < MaxLoopingCrafterCalls /\ CrafterWeightsImproved
  \/ cyclesCount < MaxLoopingCrafterCalls /\ CrafterWeightsDidNotImprove
  \/ CrafterLoop
  \/ CrafterReturn

CrafterLoopingFairness == WF_vars(CrafterLoopEnds)

CrafterLoopingSpec ==
  CrafterLoopingInit /\ [][CrafterLoopingNext]_vars /\ CrafterLoopingFairness

(***************************************************************************)
(* MatrixDigraph::Value is int64_t. A value is kept as ValueLimbsCount      *)
(* limbs in base 2^ShiftCount, the least significant first: every limb but *)
(* the last is in 0..(LimbCardinality - 1), the last one holds the sign.   *)
(* A right shift by ShiftCount that keeps the sign drops the first limb.   *)
(***************************************************************************)
ShiftCount == 15
LimbCardinality == 2^ShiftCount
\* The limbs of a value: 4 limbs of 15 bits, and the bits from the 60th on.
ValueLimbsCount == 5
\* What the last limb of an int64_t holds: its bits 60 to 63, signed.
LastLimbCardinality == 16

RECURSIVE CarriedFrom(_, _, _)
\* The limbs of the number whose unnormalized limbs are 'raw', from limb k on.
CarriedFrom(raw, k, carry) ==
  IF k = Len(raw) THEN <<raw[k] + carry>>
  ELSE <<(raw[k] + carry) % LimbCardinality>>
         \o CarriedFrom(raw, k + 1, (raw[k] + carry) \div LimbCardinality)

\* The limbs of an int (the product of an input and a weight, a weight, a constant).
LimbsOf(int) == CarriedFrom([k \in 1..ValueLimbsCount |-> IF k = 1 THEN int ELSE 0], 1, 0)

\* The sum of two numbers and the product of a number and a weight, exact.
SumOf(x, y) == CarriedFrom([k \in 1..ValueLimbsCount |-> x[k] + y[k]], 1, 0)
\* The sum of a number and an int: x[1] + int is an int, as int is the product of an
\* input and a weight.
SumOfInt(x, int) ==
  CarriedFrom([k \in 1..ValueLimbsCount |-> IF k = 1 THEN x[1] + int ELSE x[k]], 1, 0)
ProductOf(x, weight) == CarriedFrom([k \in 1..ValueLimbsCount |-> x[k] * weight], 1, 0)

\* The value an arithmetic result has in Value.
InValue(x) ==
  [x EXCEPT ![ValueLimbsCount] =
     ((x[ValueLimbsCount] + LastLimbCardinality \div 2) % LastLimbCardinality)
       - LastLimbCardinality \div 2]

RECURSIVE IsLessFrom(_, _, _)
\* x < y of two values whose limbs above the k-th are the same.
IsLessFrom(x, y, k) ==
  IF k = 0 THEN FALSE
  ELSE IF x[k] # y[k] THEN x[k] < y[k]
  ELSE IsLessFrom(x, y, k - 1)

\* x < y of two values.
IsLess(x, y) == IsLessFrom(x, y, ValueLimbsCount)

\* value SHIFT_DECREASE ShiftCount, the >> of the compilers of the build script: a
\* negative value converges to -1.
ShiftDecreaseMutant(value) ==
  IF value[ValueLimbsCount] >= 0
  THEN [k \in 1..ValueLimbsCount |->
          IF k < ValueLimbsCount - 1 THEN value[k + 1]
          ELSE IF k = ValueLimbsCount - 1 THEN value[ValueLimbsCount] % LimbCardinality
          ELSE value[ValueLimbsCount] \div LimbCardinality]
  ELSE LET positive == CarriedFrom([k \in 1..ValueLimbsCount |-> -value[k]], 1, 0)
           shifted == [k \in 1..ValueLimbsCount |->
                         IF k < ValueLimbsCount - 1 THEN positive[k + 1]
                         ELSE IF k = ValueLimbsCount - 1
                              THEN positive[ValueLimbsCount] % LimbCardinality
                         ELSE positive[ValueLimbsCount] \div LimbCardinality]
       IN CarriedFrom([k \in 1..ValueLimbsCount |-> -shifted[k]], 1, 0)
ShiftDecrease(value) ==
  SubSeq(value, 2, ValueLimbsCount - 1)
    \o <<value[ValueLimbsCount] % LimbCardinality,
         value[ValueLimbsCount] \div LimbCardinality>>

(***************************************************************************)
(* LogarithmicMatrixDigraph: constructed for a matrix of rowsCount rows    *)
(* and columnsCount columns, its inputs read from the stream of an event   *)
(* file, the weights crafter of the trainer used, its weights applied.     *)
(* myWeights are the weights of *myWeightsCrafterPointer.                  *)
(***************************************************************************)
\* MatrixDigraph::Input is uint16_t.
InputsCardinality == 65536

RECURSIVE ValuesCountFrom(_)
\* The loop of the constructor: the values of the layers from one of
\* layerValuesCount values on.
NextLayerValuesCountMutant(layerValuesCount) ==
  IF 1 = layerValuesCount THEN 0 ELSE layerValuesCount \div 2
NextLayerValuesCount(layerValuesCount) ==
  IF 1 = layerValuesCount THEN 0 ELSE (layerValuesCount + 1) \div 2
ValuesCountFrom(layerValuesCount) ==
  IF layerValuesCount = 0 THEN 0
  ELSE layerValuesCount + ValuesCountFrom(NextLayerValuesCount(layerValuesCount))

\* myValues is not constructed: what one of its values holds until it is assigned.
NotConstructed == "not constructed"

\* LogarithmicMatrixDigraph(rowsCount, columnsCount), rowsCount and columnsCount 2 at
\* least: the constructor of MatrixDigraph throws otherwise.
LogarithmicMatrixDigraph(rowsCount, columnsCount) ==
  LET valuesCount == ValuesCountFrom(rowsCount * 2)
      inputsCount == rowsCount * columnsCount
  IN [myColumnsCount |-> columnsCount,
      myInputsCount |-> inputsCount,
      myInputs |-> [i \in 0..(inputsCount - 1) |-> 0],
      myValues |-> [i \in 0..(valuesCount - 1) |-> NotConstructed],
      myRequiredWeightsCount |-> (inputsCount * 2) + valuesCount - 1,
      myWeights |-> <<>>,
      weightsIndex |-> 0,
      overflowed |-> FALSE]

\* Whether a product or a sum of Value is not the number it stands for: the signed
\* overflow of an int64_t, which the build leaves wrapped.
Overflows(x) == InValue(x) # x

\* result += ..., where next is the sum: the result and whether a sum has overflowed.
InputsResultWith(sum, next) ==
  IF Overflows(next)
  THEN [result |-> InValue(next), overflowed |-> TRUE]
  ELSE [result |-> next, overflowed |-> sum.overflowed]

RECURSIVE InputsResult(_, _, _, _, _)
RECURSIVE InputsResultAfter(_, _, _, _, _)
\* for (result = 0; ingressIndex != afterLastIngressIndex; ++ingressIndex, ++weightsIndex)
\*   result += myInputs[ingressIndex] * (*myWeightsCrafterPointer)[weightsIndex];
\* the product is an int, that an input and a weight cannot overflow. It leaves the
\* result and whether a sum has overflowed. The iterations are taken in their order: one
\* of them, or the first half of them and then the others from what these left.
InputsResult(d, ingressIndex, afterLastIngressIndex, weightsIndex, sum) ==
  IF ingressIndex = afterLastIngressIndex THEN sum
  ELSE IF ingressIndex + 1 = afterLastIngressIndex
  THEN InputsResultWith(sum,
         SumOfInt(sum.result, d.myInputs[ingressIndex] * d.myWeights[weightsIndex]))
  ELSE LET half == (afterLastIngressIndex - ingressIndex) \div 2
       IN InputsResultAfter(d, ingressIndex + half, afterLastIngressIndex,
            weightsIndex + half,
            InputsResult(d, ingressIndex, ingressIndex + half, weightsIndex, sum))

\* The iterations from ingressIndex on, after the ones that left sum. TLC has the
\* value of sum before it goes on: it would nest the iterations otherwise.
InputsResultAfter(d, ingressIndex, afterLastIngressIndex, weightsIndex, sum) ==
  IF sum.overflowed
  THEN InputsResult(d, ingressIndex, afterLastIngressIndex, weightsIndex, sum)
  ELSE InputsResult(d, ingressIndex, afterLastIngressIndex, weightsIndex, sum)

\* The body of the while loop: the two results of a row are its two values.
FirstLayerWith(d, weightsIndex, egressIndex, first, second) ==
  [d EXCEPT !.myValues[egressIndex] = first.result,
            !.myValues[egressIndex + 1] = second.result,
            !.overflowed = @ \/ first.overflowed \/ second.overflowed,
            !.weightsIndex = weightsIndex]

RECURSIVE FirstLayer(_, _, _, _, _)
\* The while loop of applyWeights(), for rowsCount rows from the one of the three
\* indexes on: the inputs of each row to two values. The rows are taken in their order:
\* one of them, or the first half of them and then the others from what these left.
FirstLayer(d, ingressIndex, weightsIndex, egressIndex, rowsCount) ==
  IF rowsCount = 0 \/ ingressIndex = d.myInputsCount
  THEN [d EXCEPT !.weightsIndex = weightsIndex]
  ELSE IF rowsCount = 1
  THEN LET afterLastIngressIndex == ingressIndex + d.myColumnsCount
           none == [result |-> LimbsOf(0), overflowed |-> FALSE]
       IN FirstLayerWith(d, weightsIndex + 2 * d.myColumnsCount, egressIndex,
            InputsResult(d, ingressIndex, afterLastIngressIndex, weightsIndex, none),
            InputsResult(d, ingressIndex, afterLastIngressIndex,
                         weightsIndex + d.myColumnsCount, none))
  ELSE LET half == rowsCount \div 2
       IN FirstLayer(FirstLayer(d, ingressIndex, weightsIndex, egressIndex, half),
                     ingressIndex + half * d.myColumnsCount,
                     weightsIndex + half * 2 * d.myColumnsCount,
                     egressIndex + half * 2, rowsCount - half)

\* Whether the products and the sum of the inner for loop, and the product of the
\* lone last value, overflow.
PairOverflows(d, ingressIndex, weightsIndex) ==
  LET first == ProductOf(d.myValues[ingressIndex], d.myWeights[weightsIndex])
      second == ProductOf(d.myValues[ingressIndex + 1], d.myWeights[weightsIndex + 1])
  IN \/ Overflows(first)
     \/ Overflows(second)
     \/ Overflows(SumOf(InValue(first), InValue(second)))
LoneOverflows(d, ingressIndex, weightsIndex) ==
  Overflows(ProductOf(d.myValues[ingressIndex], d.myWeights[weightsIndex]))

\* What the inner for loop and the lone last value assign.
PairValueMutant(d, ingressIndex, weightsIndex) ==
  ShiftDecrease(InValue(SumOf(d.myValues[ingressIndex], d.myValues[ingressIndex + 1])))
PairValue(d, ingressIndex, weightsIndex) ==
  ShiftDecrease(InValue(SumOf(
    InValue(ProductOf(d.myValues[ingressIndex], d.myWeights[weightsIndex])),
    InValue(ProductOf(d.myValues[ingressIndex + 1], d.myWeights[weightsIndex + 1])))))
LoneValue(d, ingressIndex, weightsIndex) ==
  ShiftDecrease(InValue(ProductOf(d.myValues[ingressIndex], d.myWeights[weightsIndex])))

RECURSIVE PairsOfLayer(_, _, _, _, _)
\* The inner for loop: each two ingress values to one egress value; it leaves the
\* digraph and the three indexes.
PairsOfLayer(d, ingressIndex, weightsIndex, egressIndex, ingressLastIndex) ==
  IF ingressIndex < ingressLastIndex
  THEN IF PairOverflows(d, ingressIndex, weightsIndex)
       THEN PairsOfLayer([d EXCEPT !.myValues[egressIndex] =
                                      PairValue(d, ingressIndex, weightsIndex),
                                    !.overflowed = TRUE],
                         ingressIndex + 2, weightsIndex + 2, egressIndex + 1,
                         ingressLastIndex)
       ELSE PairsOfLayer([d EXCEPT !.myValues[egressIndex] =
                                      PairValue(d, ingressIndex, weightsIndex)],
                         ingressIndex + 2, weightsIndex + 2, egressIndex + 1,
                         ingressLastIndex)
  ELSE [d |-> d, ingressIndex |-> ingressIndex, weightsIndex |-> weightsIndex,
        egressIndex |-> egressIndex]

RECURSIVE NextLayers(_, _, _, _, _)
\* The outer for loop: each layer of values into the next one, down to the sink.
NextLayers(d, ingressIndex, weightsIndex, egressIndex, ingressLastIndex) ==
  IF ingressIndex = ingressLastIndex
  THEN [d EXCEPT !.weightsIndex = weightsIndex]
  ELSE LET pairs == PairsOfLayer(d, ingressIndex, weightsIndex, egressIndex,
                                 ingressLastIndex)
       IN IF pairs.ingressIndex = ingressLastIndex
          THEN NextLayers([pairs.d EXCEPT !.myValues[pairs.egressIndex] =
                                            LoneValue(pairs.d, pairs.ingressIndex,
                                                      pairs.weightsIndex),
                                          !.overflowed =
                                            IF LoneOverflows(pairs.d, pairs.ingressIndex,
                                                             pairs.weightsIndex)
                                            THEN TRUE ELSE @],
                          pairs.ingressIndex + 1, pairs.weightsIndex + 1,
                          pairs.egressIndex + 1, pairs.egressIndex)
          ELSE NextLayers(pairs.d, pairs.ingressIndex, pairs.weightsIndex,
                          pairs.egressIndex, pairs.egressIndex - 1)

\* The layers after the first one, that left 'first'.
NextLayersAfter(first, egressIndex) ==
  NextLayers(first, 0, first.weightsIndex, egressIndex, egressIndex - 1)

\* applyWeights(): the digraph it leaves; weightsIndex is the local of that name when
\* it returns.
AppliedWeights(d) ==
  LET egressIndex == (d.myInputsCount \div d.myColumnsCount) * 2
  IN NextLayersAfter(FirstLayer(d, 0, 0, 0, d.myInputsCount \div d.myColumnsCount),
                     egressIndex)

\* uniqueSinkValue(): myValues.back().
UniqueSinkValue(d) == d.myValues[Cardinality(DOMAIN d.myValues) - 1]

(***************************************************************************)
(* One matrix digraph, as an event and a trainer use it: constructed, its  *)
(* inputs read, the weights crafter used, the weights applied, other       *)
(* weights of the crafter applied.                                         *)
(***************************************************************************)
MaxRowsCount == 5
MaxColumnsCount == 3
\* The rows counts and columns counts that matrix digraphs are constructed for.
MatrixShapes == (2..MaxRowsCount) \X (2..MaxColumnsCount)
\* The inputs a stream holds and the weights a crafter holds, for count of them: a
\* first one and a step from each one to the next.
FirstInputs == {0, 1, 40000, InputsCardinality - 1}
InputsSteps == {0, 1}
StreamInputs(count) ==
  {[i \in 0..(count - 1) |-> (first + step * i) % InputsCardinality] :
     first \in FirstInputs, step \in InputsSteps}
FirstWeights == {MinimumWeight, -1, 1, 30000, MaximumWeight}
WeightsSteps == {0, 1, -4099}
CraftedWeights(count) ==
  {[i \in 0..(count - 1) |-> InWeight(first + step * i)] :
     first \in FirstWeights, step \in WeightsSteps}

DigraphInit ==
  /\ myErrandsLeftCount = 0
  /\ myMustDie = FALSE
  /\ myErrandsQueue = <<>>
  /\ goferPc = [g \in Gofers |-> "none"]
  /\ goferErrand = [g \in Gofers |-> NoErrand]
  /\ HistoryInit
  /\ clientPc = "idle"
  /\ clientCv = "running"
  /\ clientResult = 0
  /\ myMaximumTrainingCyclesCount = 0
  /\ myAlive = FALSE
  /\ hasGoferThreadsPool = FALSE
  /\ cyclesCount = 0
  /\ ranksTotal = 0
  /\ crafter = <<>>
  /\ matrixDigraphsCount = <<>>
  /\ appliedWeights = <<>>
  /\ desiredMatrixDigraphRank = <<>>
  /\ ranksOfWeights = <<>>
  /\ evaluationsCount = <<>>
  /\ myMatrixDigraphs = <<>>
  /\ myDesiredMatrixDigraphIndex = <<>>
  /\ matrixDigraphPointer = <<>>
  /\ matrixDigraph = <<>>
  /\ weightsFile = NoWeightsFile
  /\ eventFile = <<>>
  /\ myVector = <<>>
  /\ weightsFileWasRead = FALSE
  /\ stopCalled = FALSE
  /\ batchesCount = 0
  /\ retriesCount = 0
  /\ lastCycle = NoCycle

\* What the methods of a matrix digraph leave alone.
DigraphFrame ==
  UNCHANGED <<poolVars, clientCv, clientResult, historyVars, trainerVars, crafter,
              matrixDigraphsCount, appliedWeights, desiredMatrixDigraphRank,
              ranksOfWeights, evaluationsCount, myMatrixDigraphs,
              myDesiredMatrixDigraphIndex, matrixDigraphPointer, weightsFile, eventFile, myVector,
              trainerHistoryVars>>

\* matrixDigraphInstantiator(matrixRowsCount, matrixColumnsCount)
DigraphConstruct ==
  /\ clientPc = "idle"
  /\ \E shape \in MatrixShapes :
       matrixDigraph' = LogarithmicMatrixDigraph(shape[1], shape[2])
  /\ clientPc' = "constructed"
  /\ DigraphFrame

\* readInputsFromStream() of a stream that holds the inputs.
DigraphReadInputsFromStream ==
  /\ clientPc = "constructed"
  /\ \E inputs \in StreamInputs(matrixDigraph.myInputsCount) :
       matrixDigraph' = [matrixDigraph EXCEPT !.myInputs = inputs]
  /\ clientPc' = "populated"
  /\ DigraphFrame

\* useWeightsCrafter() of a crafter of myRequiredWeightsCount weights.
DigraphUseWeightsCrafter ==
  /\ clientPc = "populated"
  /\ \E weights \in CraftedWeights(matrixDigraph.myRequiredWeightsCount) :
       matrixDigraph' = [matrixDigraph EXCEPT !.myWeights = weights]
  /\ clientPc' = "ready"
  /\ DigraphFrame

\* applyWeights()
DigraphApplyWeights ==
  /\ clientPc = "ready"
  /\ matrixDigraph' = AppliedWeights(matrixDigraph)
  /\ clientPc' = "applied"
  /\ DigraphFrame

DigraphNext ==
  \/ DigraphConstruct
  \/ DigraphReadInputsFromStream
  \/ DigraphUseWeightsCrafter
  \/ DigraphApplyWeights

DigraphSpec == DigraphInit /\ [][DigraphNext]_vars

(***************************************************************************)
(* applyWeights() of a matrix digraph whose inputs are all the same and    *)
(* whose weights are all the same: the matrix is kept as its rows count,   *)
(* its columns count, the input and the weight, and what applyWeights()    *)
(* leaves as whether it has overflowed and the unique sink value. The      *)
(* matrices are the ones of DigraphSpec and a large one, that              *)
(* buildMatrixDigraphs() accepts as any other: its sanity tests bound      *)
(* neither the rows count nor the columns count.                           *)
(***************************************************************************)
LargeRowsCount == 256
LargeColumnsCount == 257

UniformMatrices ==
  {[rowsCount |-> shape[1], columnsCount |-> shape[2], input |-> input,
    weight |-> weight] :
     shape \in MatrixShapes, input \in FirstInputs, weight \in FirstWeights}
  \cup {[rowsCount |-> LargeRowsCount, columnsCount |-> LargeColumnsCount,
          input |-> InputsCardinality - 1, weight |-> MinimumWeight]}

\* The matrix digraph d of a matrix, its inputs read and the weights crafter used.
UniformlyPopulated(matrix, d) ==
  [d EXCEPT !.myInputs = [i \in 0..(d.myInputsCount - 1) |-> matrix.input],
            !.myWeights = [i \in 0..(d.myRequiredWeightsCount - 1) |-> matrix.weight]]
UniformMatrixDigraph(matrix) ==
  UniformlyPopulated(matrix,
                     LogarithmicMatrixDigraph(matrix.rowsCount, matrix.columnsCount))

\* What is kept of a matrix digraph after applyWeights().
UniformApplied(matrix, d) ==
  [rowsCount |-> matrix.rowsCount, columnsCount |-> matrix.columnsCount,
   input |-> matrix.input, weight |-> matrix.weight,
   overflowed |-> d.overflowed, uniqueSinkValue |-> UniqueSinkValue(d)]

UniformInit ==
  /\ myErrandsLeftCount = 0
  /\ myMustDie = FALSE
  /\ myErrandsQueue = <<>>
  /\ goferPc = [g \in Gofers |-> "none"]
  /\ goferErrand = [g \in Gofers |-> NoErrand]
  /\ HistoryInit
  /\ clientPc = "ready"
  /\ clientCv = "running"
  /\ clientResult = 0
  /\ myMaximumTrainingCyclesCount = 0
  /\ myAlive = FALSE
  /\ hasGoferThreadsPool = FALSE
  /\ cyclesCount = 0
  /\ ranksTotal = 0
  /\ crafter = <<>>
  /\ matrixDigraphsCount = <<>>
  /\ appliedWeights = <<>>
  /\ desiredMatrixDigraphRank = <<>>
  /\ ranksOfWeights = <<>>
  /\ evaluationsCount = <<>>
  /\ myMatrixDigraphs = <<>>
  /\ myDesiredMatrixDigraphIndex = <<>>
  /\ matrixDigraphPointer = <<>>
  /\ matrixDigraph \in UniformMatrices
  /\ weightsFile = NoWeightsFile
  /\ eventFile = <<>>
  /\ myVector = <<>>
  /\ weightsFileWasRead = FALSE
  /\ stopCalled = FALSE
  /\ batchesCount = 0
  /\ retriesCount = 0
  /\ lastCycle = NoCycle


\* applyWeights()
UniformApplyWeights ==
  /\ clientPc = "ready"
  /\ matrixDigraph' =
       UniformApplied(matrixDigraph, AppliedWeights(UniformMatrixDigraph(matrixDigraph)))
  /\ clientPc' = "applied"
  /\ DigraphFrame

UniformNext == UniformApplyWeights

UniformSpec == UniformInit /\ [][UniformNext]_vars

(***************************************************************************)
(* One SupervisedNetworkEvent, as a trainer uses it: its matrix digraphs   *)
(* are built from an event file that holds the desired matrix once, the    *)
(* weights are applied and the rank of the desired matrix digraph is asked *)
(* for, any number of times, and run() sorts the matrix digraphs in the    *)
(* end. What applyWeights() computes is in DigraphSpec: here the unique    *)
(* sink values are any values. A matrix digraph is its name, the index it  *)
(* was built at, and its unique sink value.                                *)
(***************************************************************************)
MaxEventMatrixDigraphsCount == 3
UniqueSinkValues == {LimbsOf(-1), LimbsOf(0), LimbsOf(5)}
\* myDesiredMatrixDigraphIndex of an event without matrix digraphs.
InvalidIndex == -1

EventInit ==
  /\ myErrandsLeftCount = 0
  /\ myMustDie = FALSE
  /\ myErrandsQueue = <<>>
  /\ goferPc = [g \in Gofers |-> "none"]
  /\ goferErrand = [g \in Gofers |-> NoErrand]
  /\ HistoryInit
  /\ clientPc = "idle"
  /\ clientCv = "running"
  /\ clientResult = 0
  /\ myMaximumTrainingCyclesCount = 0
  /\ myAlive = FALSE
  /\ hasGoferThreadsPool = FALSE
  /\ cyclesCount = 0
  /\ ranksTotal = 0
  /\ crafter = <<>>
  /\ matrixDigraphsCount = 0
  /\ appliedWeights = <<>>
  /\ desiredMatrixDigraphRank = 0
  /\ ranksOfWeights = <<>>
  /\ evaluationsCount = 0
  /\ myMatrixDigraphs = <<>>
  /\ myDesiredMatrixDigraphIndex = InvalidIndex
  /\ matrixDigraphPointer = <<>>
  /\ matrixDigraph = <<>>
  /\ weightsFile = NoWeightsFile
  /\ eventFile = <<>>
  /\ myVector = <<>>
  /\ weightsFileWasRead = FALSE
  /\ stopCalled = FALSE
  /\ batchesCount = 0
  /\ retriesCount = 0
  /\ lastCycle = NoCycle

\* What the methods of an event leave alone.
EventFrame ==
  UNCHANGED <<poolVars, clientCv, clientResult, historyVars, trainerVars, crafter,
              appliedWeights, ranksOfWeights, matrixDigraphPointer, matrixDigraph,
              weightsFile, eventFile, myVector, trainerHistoryVars>>

\* buildMatrixDigraphs() that returns true: the desired matrix was encountered once.
EventBuildMatrixDigraphs ==
  /\ clientPc = "idle"
  /\ \E matricesCount \in 1..MaxEventMatrixDigraphsCount :
       /\ myMatrixDigraphs' = [index \in 0..(matricesCount - 1) |->
                                 [name |-> index, uniqueSinkValue |-> NotConstructed]]
       /\ myDesiredMatrixDigraphIndex' \in 0..(matricesCount - 1)
       /\ matrixDigraphsCount' = matricesCount
  /\ clientPc' = "built"
  /\ UNCHANGED <<desiredMatrixDigraphRank, evaluationsCount>>
  /\ EventFrame

\* applyWeights(): every matrix digraph applies the weights of the crafter.
EventApplyWeights ==
  /\ clientPc \in {"built", "ranked"}
  /\ \E values \in [DOMAIN myMatrixDigraphs -> UniqueSinkValues] :
       myMatrixDigraphs' = [index \in DOMAIN myMatrixDigraphs |->
                              [myMatrixDigraphs[index] EXCEPT
                                 !.uniqueSinkValue = values[index]]]
  /\ clientPc' = "applied"
  /\ UNCHANGED <<myDesiredMatrixDigraphIndex, matrixDigraphsCount, desiredMatrixDigraphRank,
                 evaluationsCount>>
  /\ EventFrame

\* Whether desiredMatrixDigraphRank() counts a matrix digraph.
IsRankedMutant(uniqueSinkValue, desiredMatrixDigraphUniqueSinkValue) ==
  IsLess(desiredMatrixDigraphUniqueSinkValue, uniqueSinkValue)
IsRanked(uniqueSinkValue, desiredMatrixDigraphUniqueSinkValue) ==
  ~IsLess(uniqueSinkValue, desiredMatrixDigraphUniqueSinkValue)

RECURSIVE RankFrom(_, _, _)
\* The for loop of desiredMatrixDigraphRank(), from the matrix digraph at index on.
RankFrom(digraphs, index, desiredMatrixDigraphUniqueSinkValue) ==
  IF index = Cardinality(DOMAIN digraphs) THEN 0
  ELSE (IF IsRanked(digraphs[index].uniqueSinkValue, desiredMatrixDigraphUniqueSinkValue)
        THEN 1 ELSE 0)
       + RankFrom(digraphs, index + 1, desiredMatrixDigraphUniqueSinkValue)

\* desiredMatrixDigraphRank()
DesiredMatrixDigraphRank(digraphs, desiredIndex) ==
  IF desiredIndex = InvalidIndex THEN 0
  ELSE RankFrom(digraphs, 0, digraphs[desiredIndex].uniqueSinkValue)

\* train() and logRanks() ask for the rank after the weights were applied.
EventDesiredMatrixDigraphRank ==
  /\ clientPc = "applied"
  /\ desiredMatrixDigraphRank' =
       DesiredMatrixDigraphRank(myMatrixDigraphs, myDesiredMatrixDigraphIndex)
  /\ clientPc' = "ranked"
  /\ UNCHANGED <<myMatrixDigraphs, myDesiredMatrixDigraphIndex, matrixDigraphsCount,
                 evaluationsCount>>
  /\ EventFrame

\* Whether a sequence of matrix digraphs is in the order std::sort can leave: no
\* unique sink value is less than a later one.
IsReverseSorted(digraphs) ==
  \A i, j \in DOMAIN digraphs :
     i < j => ~IsLess(digraphs[i].uniqueSinkValue, digraphs[j].uniqueSinkValue)

\* reverseSortMatrixDigraphsByUniqueSinkValue(), the last thing run() does with an
\* event: any order of the matrix digraphs that std::sort can leave.
EventReverseSortMatrixDigraphs ==
  /\ clientPc = "ranked"
  /\ \E order \in [DOMAIN myMatrixDigraphs -> DOMAIN myMatrixDigraphs] :
       /\ \A i, j \in DOMAIN order : order[i] = order[j] => i = j
       /\ IsReverseSorted([index \in DOMAIN order |-> myMatrixDigraphs[order[index]]])
       /\ myMatrixDigraphs' = [index \in DOMAIN order |-> myMatrixDigraphs[order[index]]]
  /\ clientPc' = "sorted"
  /\ UNCHANGED <<myDesiredMatrixDigraphIndex, matrixDigraphsCount, desiredMatrixDigraphRank,
                 evaluationsCount>>
  /\ EventFrame

EventNext ==
  \/ EventBuildMatrixDigraphs
  \/ EventApplyWeights
  \/ EventDesiredMatrixDigraphRank
  \/ EventReverseSortMatrixDigraphs

EventSpec == EventInit /\ [][EventNext]_vars

(***************************************************************************)
(* The evaluations of train(): the events hold their matrix digraphs, each *)
(* with its inputs, and every batch applies the weights of the crafter to  *)
(* every matrix digraph, through the pool (an errand for each event, a     *)
(* step for each matrix digraph) or on the main thread. What the crafter   *)
(* does between two batches is in CrafterSpec: here it leaves any of a few *)
(* weights vectors.                                                        *)
(***************************************************************************)
\* The matrix of every event file, and how many of them each event file holds.
EvaluationRowsCount == 2
EvaluationColumnsCount == 2
EvaluationMatrixDigraphsCount == 2

\* The inputs of a matrix and the weights of the crafter that the batches are
\* followed for.
EvaluationInputs ==
  {[i \in 0..(EvaluationRowsCount * EvaluationColumnsCount - 1) |-> first] :
     first \in {1, 40000}}
EvaluationWeights ==
  LET count == LogarithmicMatrixDigraph(EvaluationRowsCount,
                                        EvaluationColumnsCount).myRequiredWeightsCount
  IN {[i \in 0..(count - 1) |-> InWeight(first + step * i)] :
        first \in {MinimumWeight, 30000}, step \in {0, -4099}}

\* The matrix digraphs buildMatrixDigraphs() leaves for an event file that holds the
\* matrices of these inputs.
BuiltMatrixDigraphs(inputs) ==
  [index \in DOMAIN inputs |->
     [LogarithmicMatrixDigraph(EvaluationRowsCount, EvaluationColumnsCount)
        EXCEPT !.myInputs = inputs[index]]]

\* Where the event file of an event holds the desired matrix: the inputs of the
\* matrices being any, an index for each event loses no order of the sink values.
DesiredIndexOfEvent(e) == (e - 1) % EvaluationMatrixDigraphsCount

\* The trainer after populateFromArguments(): more than one training cycle, a pool or
\* none, every event built from its event file, the crafter used by every event.
EvaluationInit ==
  /\ myMaximumTrainingCyclesCount = MaxTrainingCycles
  /\ myAlive = FALSE
  /\ hasGoferThreadsPool \in BOOLEAN
  /\ cyclesCount = 0
  /\ ranksTotal = 0
  /\ crafter \in {[myWeights |-> weights] : weights \in EvaluationWeights}
  /\ matrixDigraphsCount = [e \in Errands |-> EvaluationMatrixDigraphsCount]
  /\ appliedWeights = [e \in Errands |-> <<>>]
  /\ desiredMatrixDigraphRank = [e \in Errands |-> 0]
  /\ ranksOfWeights = [e \in Errands |-> <<>>]
  /\ evaluationsCount = [e \in Errands |-> 0]
  /\ \E inputs \in [Errands -> [0..(EvaluationMatrixDigraphsCount - 1) -> EvaluationInputs]] :
       myMatrixDigraphs = [e \in Errands |-> BuiltMatrixDigraphs(inputs[e])]
  /\ myDesiredMatrixDigraphIndex = [e \in Errands |-> DesiredIndexOfEvent(e)]
  /\ matrixDigraphPointer = [e \in Errands |-> 0]
  /\ matrixDigraph = <<>>
  /\ weightsFile = NoWeightsFile
  /\ eventFile = <<>>
  /\ myVector = <<>>
  /\ weightsFileWasRead = FALSE
  /\ stopCalled = FALSE
  /\ batchesCount = 0
  /\ retriesCount = 0
  /\ lastCycle = NoCycle
  /\ myErrandsLeftCount = 0
  /\ myMustDie = FALSE
  /\ myErrandsQueue = <<>>
  /\ goferPc = [g \in Gofers |-> IF hasGoferThreadsPool THEN "start" ELSE "none"]
  /\ goferErrand = [g \in Gofers |-> NoErrand]
  /\ HistoryInit
  /\ clientPc = "main"
  /\ clientCv = "running"
  /\ clientResult = 0

\* matrixDigraphPointer->applyWeights(): the weights are the ones of the crafter that
\* useWeightsCrafter() gave the matrix digraph a pointer to.
MatrixDigraphApplyWeights(d) == AppliedWeights([d EXCEPT !.myWeights = crafter.myWeights])

\* The event that the errand at an index of the errands vector has captured.
EventOfErrandMutant(errand) == 1
EventOfErrand(errand) == errand

\* One turn of the for loop of SupervisedNetworkEvent::applyWeights() in the errand a
\* gofer thread runs; the errand returns after the last matrix digraph.
GoferMatrixDigraphApplyWeights(g) ==
  /\ goferPc[g] = "run"
  /\ LET event == EventOfErrand(goferErrand[g])
         index == matrixDigraphPointer[event]
         isLast == index + 1 = matrixDigraphsCount[event]
     IN /\ myMatrixDigraphs' =
             [myMatrixDigraphs EXCEPT ![event][index] = MatrixDigraphApplyWeights(@)]
        /\ matrixDigraphPointer' =
             [matrixDigraphPointer EXCEPT ![event] = IF isLast THEN 0 ELSE index + 1]
        /\ evaluationsCount' =
             [evaluationsCount EXCEPT ![event] = IF isLast THEN @ + 1 ELSE @]
        /\ completedCount' =
             [completedCount EXCEPT ![goferErrand[g]] = IF isLast THEN @ + 1 ELSE @]
        /\ goferPc' = [goferPc EXCEPT ![g] = IF isLast THEN "loop" ELSE "run"]
  /\ UNCHANGED <<myErrandsLeftCount, myMustDie, myErrandsQueue, goferErrand, clientVars,
                 enqueuedCount, startedCount, trainerVars, crafter, matrixDigraphsCount,
                 appliedWeights, desiredMatrixDigraphRank, ranksOfWeights,
                 myDesiredMatrixDigraphIndex, matrixDigraph, weightsFile, eventFile, myVector,
                 trainerHistoryVars>>

\* Without a pool: applyWeights() of every event on the main thread.
EvaluationOnMainThread ==
  /\ clientPc = "batch"
  /\ ~hasGoferThreadsPool
  /\ myMatrixDigraphs' =
       [e \in Errands |->
          [index \in DOMAIN myMatrixDigraphs[e] |->
             MatrixDigraphApplyWeights(myMatrixDigraphs[e][index])]]
  /\ evaluationsCount' = [e \in Errands |-> evaluationsCount[e] + 1]
  /\ clientPc' = "ranks"
  /\ UNCHANGED <<poolVars, clientCv, clientResult, historyVars, trainerVars, crafter,
                 matrixDigraphsCount, appliedWeights, desiredMatrixDigraphRank,
                 ranksOfWeights, myDesiredMatrixDigraphIndex, matrixDigraphPointer,
                 matrixDigraph, weightsFile, eventFile, myVector, trainerHistoryVars>>

\* What desiredMatrixDigraphRank() reads of the matrix digraphs of an event.
UniqueSinkValuesOf(digraphs) ==
  [index \in DOMAIN digraphs |-> [uniqueSinkValue |-> UniqueSinkValue(digraphs[index])]]

\* newRanksTotal += supervisedNetworkEvent.desiredMatrixDigraphRank(), for every event,
\* the comparison of the ranks, and the call of the crafter, which leaves other weights.
EvaluationCompareRanks ==
  /\ clientPc = "ranks"
  /\ desiredMatrixDigraphRank' =
       [e \in Errands |->
          DesiredMatrixDigraphRank(UniqueSinkValuesOf(myMatrixDigraphs[e]),
                                   myDesiredMatrixDigraphIndex[e])]
  /\ LET total == SumOver(desiredMatrixDigraphRank', Errands)
     IN /\ ranksTotal' = IF total < ranksTotal THEN total ELSE ranksTotal
        /\ lastCycle' = [ranksTotalBefore |-> ranksTotal,
                         newRanksTotal |-> total,
                         ranksTotalAfter |-> ranksTotal',
                         weights |-> crafter.myWeights,
                         called |-> IF total < ranksTotal THEN "weightsImproved"
                                    ELSE "weightsDidNotImprove"]
  /\ crafter' \in {[myWeights |-> weights] : weights \in EvaluationWeights \ {crafter.myWeights}}
  /\ clientPc' = "next"
  /\ UNCHANGED <<poolVars, clientCv, clientResult, historyVars,
                 myMaximumTrainingCyclesCount, myAlive, hasGoferThreadsPool, cyclesCount,
                 matrixDigraphsCount, appliedWeights, ranksOfWeights, evaluationsCount,
                 digraphVars, weightsFile, eventFile, myVector, weightsFileWasRead, stopCalled, batchesCount,
                 retriesCount>>

EvaluationGoferStep ==
  \E g \in Gofers :
    \/ GoferStart(g)
    \/ GoferLoop(g)
    \/ GoferWake(g)
    \/ GoferMatrixDigraphApplyWeights(g)

EvaluationNext ==
  \/ EvaluationGoferStep
  \/ Run
  \/ LoopCondition
  \/ BatchEnQueueErrands
  \/ BatchNotifyGofers
  \/ BatchWaitForAllErrandsToComplete
  \/ EvaluationOnMainThread
  \/ EvaluationCompareRanks
  \/ NextCycle

EvaluationSpec == EvaluationInit /\ [][EvaluationNext]_vars

(***************************************************************************)
(* buildMatrixDigraphs() of a SupervisedNetworkEvent, given an event file: *)
(* the size that OpenInputBinaryFileNamed found, the four values of the    *)
(* header, the names of the matrices that follow it, and how many bytes of *)
(* it can be read before the stream stops being good. The desired matrix   *)
(* name of the event is DesiredMatrixName. A matrix digraph is its name    *)
(* and its myInputsCount; NullPointer is a pointer that resize() left.     *)
(***************************************************************************)
\* sizeof(eventFileHeader) and sizeof(MatrixDigraph::Input).
SizeOfHeader == 16
SizeOfInput == 2

\* The value an arithmetic result has in FileHeaderDatum and in Index, uint32_t: its
\* 32 lowest bits, that is two limbs and two bits.
InFileHeaderDatum(x) == <<x[1], x[2], x[3] % 4, 0, 0>>
\* The value an arithmetic result that is not negative has in size_t, of 64 bits.
InSize(x) == [x EXCEPT ![ValueLimbsCount] = @ % LastLimbCardinality]
\* The int that a FileHeaderDatum less than 2^31 is.
IntOf(x) == x[1] + x[2] * LimbCardinality + x[3] * LimbCardinality * LimbCardinality

\* matrixRowsCount * matrixColumnsCount, the product of two FileHeaderDatum, which is
\* also myInputsCount(rowsCount * columnsCount), the product of two Index.
CellsCountMutant(header) ==
  ProductOf(LimbsOf(header.matrixRowsCount), header.matrixColumnsCount)
CellsCount(header) ==
  InFileHeaderDatum(ProductOf(LimbsOf(header.matrixRowsCount), header.matrixColumnsCount))

\* matrixNameSize + (matrixRowsCount * matrixColumnsCount * sizeof(Input)), a size_t.
MatrixSize(header) ==
  InSize(SumOf(LimbsOf(header.matrixNameSize),
               InSize(ProductOf(CellsCount(header), SizeOfInput))))

\* requiredEventFileSize, a size_t.
RequiredEventFileSize(header) ==
  InSize(SumOf(LimbsOf(SizeOfHeader),
               InSize(ProductOf(MatrixSize(header), header.matricesCount))))

\* The files: their sizes, the values of their headers, the names they hold.
EventFileSizes == {15, 16, 17, 24, 25, 26, 34}
MatricesCounts == {0, 1, 2}
RowsCounts == {1, 2, 65536}
ColumnsCounts == {1, 2, 65536}
NameSizes == {0, 1}
DesiredMatrixName == "desired"
OtherMatrixName == "other"
\* How many bytes can be read when they cannot all be.
ReadableSizes == {0, 16, 17, 25, 26}

\* The files that can be: as many names as the header tells, and no more bytes to
\* read than the size.
IsEventFile(file) ==
  /\ Len(file.names) = file.header.matricesCount
  /\ file.readableSize \in {file.size} \cup {r \in ReadableSizes : r < file.size}

EventFiles ==
  {file \in [size : EventFileSizes,
             header : [matricesCount : MatricesCounts, matrixRowsCount : RowsCounts,
                       matrixColumnsCount : ColumnsCounts, matrixNameSize : NameSizes],
             names : UNION {[1..count -> {DesiredMatrixName, OtherMatrixName}] :
                              count \in MatricesCounts},
             readableSize : EventFileSizes \cup ReadableSizes] :
     IsEventFile(file)}

NullPointer == [null |-> TRUE]

\* What clearMatrixDigraphs() leaves, and what a return of buildMatrixDigraphs() is.
Cleared == [myMatrixDigraphs |-> <<>>, myDesiredMatrixDigraphIndex |-> InvalidIndex]
Returned(event, result) ==
  [myMatrixDigraphs |-> event.myMatrixDigraphs,
   myDesiredMatrixDigraphIndex |-> event.myDesiredMatrixDigraphIndex,
   result |-> result]

\* myMatrixDigraphPointers.resize(matricesCount)
Resized(event, matricesCount) ==
  [event EXCEPT !.myMatrixDigraphs = [index \in 0..(matricesCount - 1) |-> NullPointer]]

RECURSIVE BuildFrom(_, _, _, _)
\* The for loop of buildMatrixDigraphs() from index on, the stream at position: it
\* reads the name, instantiates the matrix digraph, which reads its inputs and gets
\* its name, and looks for the desired matrix name.
BuildFrom(file, event, index, position) ==
  LET header == file.header
      myInputsCount == IntOf(CellsCount(header))
      afterName == position + header.matrixNameSize
      afterInputs == afterName + myInputsCount * SizeOfInput
      name == file.names[index + 1]
      instantiated ==
        [event EXCEPT !.myMatrixDigraphs[index] =
                         [name |-> "", myInputsCount |-> myInputsCount]]
      named == [instantiated EXCEPT !.myMatrixDigraphs[index].name = name]
  IN IF index = header.matricesCount
     THEN IF event.myDesiredMatrixDigraphIndex = InvalidIndex
          THEN Returned(event, FALSE)
          ELSE Returned(event, TRUE)
     ELSE IF afterName > file.readableSize THEN Returned(event, FALSE)
     ELSE IF afterInputs > file.readableSize THEN Returned(instantiated, FALSE)
     ELSE IF name # DesiredMatrixName
          THEN BuildFrom(file, named, index + 1, afterInputs)
     ELSE IF event.myDesiredMatrixDigraphIndex = InvalidIndex
          THEN BuildFrom(file, [named EXCEPT !.myDesiredMatrixDigraphIndex = index],
                         index + 1, afterInputs)
     ELSE Returned(named, FALSE)

\* Whether the values of the header pass the sanity tests.
IsSaneMutant(header) ==
  /\ header.matricesCount >= 1
  /\ header.matrixRowsCount >= 1
  /\ header.matrixColumnsCount >= 2
  /\ header.matrixNameSize >= 1
IsSane(header) ==
  /\ header.matricesCount >= 1
  /\ header.matrixRowsCount >= 2
  /\ header.matrixColumnsCount >= 2
  /\ header.matrixNameSize >= 1

\* Whether buildMatrixDigraphs() goes on to build the matrix digraphs: the header can
\* be read, its values are sane and the file has the required size.
IsAccepted(file) ==
  /\ file.size >= SizeOfHeader
  /\ file.readableSize >= SizeOfHeader
  /\ IsSane(file.header)
  /\ LimbsOf(file.size) = InValue(RequiredEventFileSize(file.header))

\* buildMatrixDigraphs(): the matrix digraphs are cleared, then built when the file
\* is accepted.
Built(file) ==
  IF IsAccepted(file)
  THEN BuildFrom(file, Resized(Cleared, file.header.matricesCount), 0, SizeOfHeader)
  ELSE Returned(Cleared, FALSE)

LoaderInit ==
  /\ myErrandsLeftCount = 0
  /\ myMustDie = FALSE
  /\ myErrandsQueue = <<>>
  /\ goferPc = [g \in Gofers |-> "none"]
  /\ goferErrand = [g \in Gofers |-> NoErrand]
  /\ HistoryInit
  /\ clientPc = "idle"
  /\ clientCv = "running"
  /\ clientResult = 0
  /\ myMaximumTrainingCyclesCount = 0
  /\ myAlive = FALSE
  /\ hasGoferThreadsPool = FALSE
  /\ cyclesCount = 0
  /\ ranksTotal = 0
  /\ crafter = <<>>
  /\ matrixDigraphsCount = 0
  /\ appliedWeights = <<>>
  /\ desiredMatrixDigraphRank = 0
  /\ ranksOfWeights = <<>>
  /\ evaluationsCount = 0
  /\ myMatrixDigraphs = <<>>
  /\ myDesiredMatrixDigraphIndex = InvalidIndex
  /\ matrixDigraphPointer = <<>>
  /\ matrixDigraph = <<>>
  /\ weightsFile = NoWeightsFile
  /\ eventFile \in EventFiles
  /\ myVector = <<>>
  /\ weightsFileWasRead = FALSE
  /\ stopCalled = FALSE
  /\ batchesCount = 0
  /\ retriesCount = 0
  /\ lastCycle = NoCycle


\* buildMatrixDigraphs(logger, desiredMatrixName, eventFileStatus, instantiator)
LoaderBuildMatrixDigraphs ==
  /\ clientPc = "idle"
  /\ myMatrixDigraphs' = Built(eventFile).myMatrixDigraphs
  /\ myDesiredMatrixDigraphIndex' = Built(eventFile).myDesiredMatrixDigraphIndex
  /\ clientResult' = Built(eventFile).result
  /\ clientPc' = "returned"
  /\ UNCHANGED <<poolVars, clientCv, historyVars, trainerVars, crafter, matrixDigraphsCount,
                 appliedWeights, desiredMatrixDigraphRank, ranksOfWeights,
                 evaluationsCount, matrixDigraphPointer, matrixDigraph, weightsFile,
                 eventFile, myVector, trainerHistoryVars>>

LoaderNext == LoaderBuildMatrixDigraphs

LoaderSpec == LoaderInit /\ [][LoaderNext]_vars

(***************************************************************************)
(* populateFromArguments() of a SupervisedNetworkTrainer, from the         *)
(* creation of the events on: each event builds its matrix digraphs from   *)
(* its event file, which is one that buildMatrixDigraphs() builds from,    *)
(* and the required weights counts of the events are compared. An event    *)
(* file is its header.                                                     *)
(***************************************************************************)
PopulateRowsCounts == {2, 3, 4}
PopulateColumnsCounts == {2, 3, 6}
PopulateHeaders ==
  [matricesCount : {1}, matrixRowsCount : PopulateRowsCounts,
   matrixColumnsCount : PopulateColumnsCounts, matrixNameSize : {1}]

\* requiredWeightsCount() of the event built from a file of this header: the one of
\* its matrix digraphs.
EventRequiredWeightsCount(header) ==
  LogarithmicMatrixDigraph(header.matrixRowsCount,
                           header.matrixColumnsCount).myRequiredWeightsCount

RECURSIVE CommonRequiredWeightsCountFrom(_, _, _)
\* The for loop that verifies that all weights counts are equal, from the event at
\* index on: whether they are, and commonRequiredWeightsCount.
CommonRequiredWeightsCountFrom(files, index, commonRequiredWeightsCount) ==
  IF index > EventsCount
  THEN [result |-> TRUE, commonRequiredWeightsCount |-> commonRequiredWeightsCount]
  ELSE IF index = 1
  THEN CommonRequiredWeightsCountFrom(files, index + 1,
                                      EventRequiredWeightsCount(files[index]))
  ELSE IF EventRequiredWeightsCount(files[index]) # commonRequiredWeightsCount
  THEN [result |-> FALSE, commonRequiredWeightsCount |-> commonRequiredWeightsCount]
  ELSE CommonRequiredWeightsCountFrom(files, index + 1, commonRequiredWeightsCount)

PopulateInit ==
  /\ myErrandsLeftCount = 0
  /\ myMustDie = FALSE
  /\ myErrandsQueue = <<>>
  /\ goferPc = [g \in Gofers |-> "none"]
  /\ goferErrand = [g \in Gofers |-> NoErrand]
  /\ HistoryInit
  /\ clientPc = "idle"
  /\ clientCv = "running"
  /\ clientResult = 0
  /\ myMaximumTrainingCyclesCount = 0
  /\ myAlive = FALSE
  /\ hasGoferThreadsPool = FALSE
  /\ cyclesCount = 0
  /\ ranksTotal = 0
  /\ crafter = <<>>
  /\ matrixDigraphsCount = 0
  /\ appliedWeights = <<>>
  /\ desiredMatrixDigraphRank = 0
  /\ ranksOfWeights = <<>>
  /\ evaluationsCount = 0
  /\ myMatrixDigraphs = <<>>
  /\ myDesiredMatrixDigraphIndex = InvalidIndex
  /\ matrixDigraphPointer = <<>>
  /\ matrixDigraph = <<>>
  /\ weightsFile = NoWeightsFile
  /\ eventFile \in [Errands -> PopulateHeaders]
  /\ myVector = <<>>
  /\ weightsFileWasRead = FALSE
  /\ stopCalled = FALSE
  /\ batchesCount = 0
  /\ retriesCount = 0
  /\ lastCycle = NoCycle


\* populateFromArguments(): it returns false when not all events require the same
\* number of weights, and creates the weights crafter of the common count otherwise.
PopulateFromArguments ==
  /\ clientPc = "idle"
  /\ clientResult' = CommonRequiredWeightsCountFrom(eventFile, 1, 0).result
  /\ crafter' =
       IF clientResult'
       THEN [myWeightsCount |->
               CommonRequiredWeightsCountFrom(eventFile, 1, 0).commonRequiredWeightsCount]
       ELSE crafter
  /\ matrixDigraphsCount' = [e \in Errands |-> eventFile[e].matricesCount]
  /\ clientPc' = "returned"
  /\ UNCHANGED <<poolVars, clientCv, historyVars, trainerVars, appliedWeights,
                 desiredMatrixDigraphRank, ranksOfWeights, evaluationsCount, digraphVars,
                 weightsFile, eventFile, myVector, trainerHistoryVars>>

PopulateNext == PopulateFromArguments

PopulateSpec == PopulateInit /\ [][PopulateNext]_vars

(***************************************************************************)
(* The weights file: writeWeightsToFile() writes the memory of myWeights,  *)
(* readWeightsFromFile() reads a file of the required size into it. A file *)
(* is the sequence of its bytes; a Weight, int16_t, is two bytes of the    *)
(* memory, the low one first as on the machines the build targets. The     *)
(* file also remembers, for the properties, the weights it was written     *)
(* from and whether writeWeightsToFile() returned its name.                *)
(***************************************************************************)
MaxFileWeightsCount == 2
SizeOfWeight == 2
BytesCardinality == 256

\* The weights a trained crafter can hold when it is written.
WrittenWeights == {MinimumWeight, -1, 0, BytesCardinality - 1, BytesCardinality, MaximumWeight}

\* The bytes of the memory of a weight.
MemoryOfWeight(weight) ==
  LET unsigned == (weight + WeightsCardinality) % WeightsCardinality
  IN <<unsigned % BytesCardinality, unsigned \div BytesCardinality>>

\* The weight that two bytes of memory are.
WeightOfMemoryMutant(low, high) == low + BytesCardinality * high
WeightOfMemory(low, high) ==
  LET unsigned == low + BytesCardinality * high
  IN IF unsigned > MaximumWeight THEN unsigned - WeightsCardinality ELSE unsigned

\* myWeights.data(): the bytes of the memory of the weights, as a sequence.
MemoryOfWeights(c) ==
  [b \in 1..(c.myWeightsCount * SizeOfWeight) |->
     MemoryOfWeight(c.myWeights[(b - 1) \div SizeOfWeight])[((b - 1) % SizeOfWeight) + 1]]

\* The weights whose memory holds the bytes.
WeightsOfMemory(c, bytes) ==
  [c EXCEPT !.myWeights =
     [w \in WeightIndexes(c) |->
        WeightOfMemory(bytes[w * SizeOfWeight + 1], bytes[w * SizeOfWeight + 2])]]

\* WeightsCrafter(weightsCount), as far as the weights file goes.
WeightsCrafter(weightsCount, weights) ==
  [myWeightsCount |-> weightsCount, myWeights |-> weights]

\* requiredWeightsFileSize of readWeightsFromFile().
RequiredWeightsFileSize(c) == c.myWeightsCount * SizeOfWeight

\* The memory of the weights once weightsFile.read() has stored the first
\* readCount bytes of the file into it.
MemoryAfterRead(c, bytes, readCount) ==
  [b \in 1..RequiredWeightsFileSize(c) |->
     IF b <= readCount THEN bytes[b] ELSE MemoryOfWeights(c)[b]]

WeightsFileInit ==
  /\ myErrandsLeftCount = 0
  /\ myMustDie = FALSE
  /\ myErrandsQueue = <<>>
  /\ goferPc = [g \in Gofers |-> "idle"]
  /\ goferErrand = [g \in Gofers |-> NoErrand]
  /\ clientPc = "idle"
  /\ clientCv = FALSE
  /\ clientResult = FALSE
  /\ enqueuedCount = [e \in Errands |-> 0]
  /\ startedCount = [e \in Errands |-> 0]
  /\ completedCount = [e \in Errands |-> 0]
  /\ myMaximumTrainingCyclesCount = 1
  /\ myAlive = FALSE
  /\ hasGoferThreadsPool = FALSE
  /\ cyclesCount = 0
  /\ ranksTotal = 0
  /\ \E weightsCount \in 1..MaxFileWeightsCount :
       crafter \in {WeightsCrafter(weightsCount, weights) :
                      weights \in [0..(weightsCount - 1) -> WrittenWeights]}
  /\ matrixDigraphsCount = 0
  /\ appliedWeights = <<>>
  /\ desiredMatrixDigraphRank = 0
  /\ ranksOfWeights = <<>>
  /\ evaluationsCount = 0
  /\ myMatrixDigraphs = <<>>
  /\ myDesiredMatrixDigraphIndex = InvalidIndex
  /\ matrixDigraphPointer = <<>>
  /\ matrixDigraph = <<>>
  /\ weightsFile = NoWeightsFile
  /\ eventFile = <<>>
  /\ myVector = <<>>
  /\ weightsFileWasRead = FALSE
  /\ stopCalled = FALSE
  /\ batchesCount = 0
  /\ retriesCount = 0
  /\ lastCycle = NoCycle

WeightsFileFrame ==
  UNCHANGED <<poolVars, clientCv, historyVars, trainerVars, eventVars, eventFile, myVector,
              trainerHistoryVars>>

\* writeWeightsToFile(): the file can not be created, or the write stops after
\* some of the bytes, or all the bytes are written and the file name returned.
WriteWeightsToFile ==
  /\ clientPc = "idle"
  /\ \/ /\ weightsFile' = NoWeightsFile
        /\ clientResult' = FALSE
     \/ \E writtenCount \in 0..(crafter.myWeightsCount * SizeOfWeight) :
          /\ weightsFile' = [bytes |-> SubSeq(MemoryOfWeights(crafter), 1, writtenCount),
                             weights |-> crafter.myWeights,
                             named |-> writtenCount = crafter.myWeightsCount * SizeOfWeight]
          /\ clientResult' = weightsFile'.named
  /\ clientPc' = "written"
  /\ UNCHANGED crafter
  /\ WeightsFileFrame

\* A later run of the program constructs its weights crafter, of any weights
\* count, before it reads the weights file that exists.
ConstructWeightsCrafter ==
  /\ clientPc = "written"
  /\ weightsFile # NoWeightsFile
  /\ \E weightsCount \in 1..MaxFileWeightsCount :
       crafter' \in {WeightsCrafter(weightsCount, weights) :
                       weights \in [0..(weightsCount - 1) -> RandomizedWeights]}
  /\ clientPc' = "constructed"
  /\ UNCHANGED <<clientResult, weightsFile>>
  /\ WeightsFileFrame

\* readWeightsFromFile(): a file of another size is refused; the read of a file
\* of the required size stores all its bytes, or fails after some of them.
ReadWeightsFile ==
  /\ clientPc = "constructed"
  /\ IF Len(weightsFile.bytes) # RequiredWeightsFileSize(crafter)
     THEN /\ clientResult' = FALSE
          /\ UNCHANGED crafter
     ELSE \E readCount \in 0..RequiredWeightsFileSize(crafter) :
            /\ crafter' = WeightsOfMemory(crafter,
                            MemoryAfterRead(crafter, weightsFile.bytes, readCount))
            /\ clientResult' = (readCount = RequiredWeightsFileSize(crafter))
  /\ clientPc' = "read"
  /\ UNCHANGED weightsFile
  /\ WeightsFileFrame

WeightsFileNext ==
  \/ WriteWeightsToFile
  \/ ConstructWeightsCrafter
  \/ ReadWeightsFile

WeightsFileSpec == WeightsFileInit /\ [][WeightsFileNext]_vars

(***************************************************************************)
(* Array: a std::vector whose size is set once. myVector[a] is the vector  *)
(* of array a, a sequence of elements. The client of the test cases calls  *)
(* the assignments, swap() and setSize() on two arrays, in any order;      *)
(* clientResult tells whether the last call returned or threw.             *)
(***************************************************************************)
MaxArraySize == 2
ArrayNames == {"a", "b"}
ArrayElements == {0, 1}
\* Element(): the value a resized vector gives to its new elements.
DefaultElement == 0
ArrayVectors == UNION {[1..size -> ArrayElements] : size \in 0..MaxArraySize}

\* empty() or (size() == otherArray.size()): the test of both operator=().
CanBeAssignedMutant(vector, otherVector) == TRUE
CanBeAssigned(vector, otherVector) == vector = <<>> \/ Len(vector) = Len(otherVector)

\* size() == otherArray.size(): the test of swap().
CanBeSwapped(vector, otherVector) == Len(vector) = Len(otherVector)

ArrayInit ==
  /\ myErrandsLeftCount = 0
  /\ myMustDie = FALSE
  /\ myErrandsQueue = <<>>
  /\ goferPc = [g \in Gofers |-> "idle"]
  /\ goferErrand = [g \in Gofers |-> NoErrand]
  /\ clientPc = "constructed"
  /\ clientCv = FALSE
  /\ clientResult = "returned"
  /\ enqueuedCount = [e \in Errands |-> 0]
  /\ startedCount = [e \in Errands |-> 0]
  /\ completedCount = [e \in Errands |-> 0]
  /\ myMaximumTrainingCyclesCount = 1
  /\ myAlive = FALSE
  /\ hasGoferThreadsPool = FALSE
  /\ cyclesCount = 0
  /\ ranksTotal = 0
  /\ crafter = <<>>
  /\ matrixDigraphsCount = 0
  /\ appliedWeights = <<>>
  /\ desiredMatrixDigraphRank = 0
  /\ ranksOfWeights = <<>>
  /\ evaluationsCount = 0
  /\ myMatrixDigraphs = <<>>
  /\ myDesiredMatrixDigraphIndex = InvalidIndex
  /\ matrixDigraphPointer = <<>>
  /\ matrixDigraph = <<>>
  /\ weightsFile = NoWeightsFile
  /\ eventFile = <<>>
  /\ myVector \in [ArrayNames -> ArrayVectors]
  /\ weightsFileWasRead = FALSE
  /\ stopCalled = FALSE
  /\ batchesCount = 0
  /\ retriesCount = 0
  /\ lastCycle = NoCycle

ArrayFrame ==
  UNCHANGED <<poolVars, clientCv, historyVars, trainerVars, crafter, eventVars, weightsFile,
              eventFile, trainerHistoryVars>>

\* array = otherArray
ArrayCopyAssign(array, otherArray) ==
  /\ clientPc' = "operator=(Array const&)"
  /\ IF array = otherArray
     THEN /\ clientResult' = "returned"
          /\ UNCHANGED myVector
     ELSE IF CanBeAssigned(myVector[array], myVector[otherArray])
     THEN /\ clientResult' = "returned"
          /\ myVector' = [myVector EXCEPT ![array] = myVector[otherArray]]
     ELSE /\ clientResult' = "threw"
          /\ UNCHANGED myVector
  /\ ArrayFrame

\* array = std::move(otherArray): the vector moved from is left empty.
ArrayMoveAssign(array, otherArray) ==
  /\ clientPc' = "operator=(Array&&)"
  /\ IF array = otherArray
     THEN /\ clientResult' = "returned"
          /\ UNCHANGED myVector
     ELSE IF CanBeAssigned(myVector[array], myVector[otherArray])
     THEN /\ clientResult' = "returned"
          /\ myVector' = [myVector EXCEPT ![array] = myVector[otherArray],
                                          ![otherArray] = <<>>]
     ELSE /\ clientResult' = "threw"
          /\ UNCHANGED myVector
  /\ ArrayFrame

\* array.swap(otherArray), and swap(array, otherArray) that calls it.
ArraySwap(array, otherArray) ==
  /\ clientPc' = "swap"
  /\ IF array = otherArray
     THEN /\ clientResult' = "returned"
          /\ UNCHANGED myVector
     ELSE IF CanBeSwapped(myVector[array], myVector[otherArray])
     THEN /\ clientResult' = "returned"
          /\ myVector' = [myVector EXCEPT ![array] = myVector[otherArray],
                                          ![otherArray] = myVector[array]]
     ELSE /\ clientResult' = "threw"
          /\ UNCHANGED myVector
  /\ ArrayFrame

\* array.setSize(newSize)
ArraySetSize(array, newSize) ==
  /\ clientPc' = "setSize"
  /\ IF myVector[array] = <<>>
     THEN /\ clientResult' = "returned"
          /\ myVector' = [myVector EXCEPT ![array] = [i \in 1..newSize |-> DefaultElement]]
     ELSE IF newSize # Len(myVector[array])
     THEN /\ clientResult' = "threw"
          /\ UNCHANGED myVector
     ELSE /\ clientResult' = "returned"
          /\ UNCHANGED myVector
  /\ ArrayFrame

\* array[index] = element
ArrayStore(array, index, element) ==
  /\ index \in DOMAIN myVector[array]
  /\ clientPc' = "operator[]"
  /\ clientResult' = "returned"
  /\ myVector' = [myVector EXCEPT ![array][index] = element]
  /\ ArrayFrame

ArrayNext ==
  \/ \E array \in ArrayNames, otherArray \in ArrayNames : ArrayCopyAssign(array, otherArray)
  \/ \E array \in ArrayNames, otherArray \in ArrayNames : ArrayMoveAssign(array, otherArray)
  \/ \E array \in ArrayNames, otherArray \in ArrayNames : ArraySwap(array, otherArray)
  \/ \E array \in ArrayNames, newSize \in 0..MaxArraySize : ArraySetSize(array, newSize)
  \/ \E array \in ArrayNames, index \in 1..MaxArraySize, element \in ArrayElements :
       ArrayStore(array, index, element)

ArraySpec == ArrayInit /\ [][ArrayNext]_vars

(***************************************************************************)
(* myMaximumWeightDelta alone, through any number of calls of              *)
(* alterWeights(): the crafter is kept as its maximum weight delta and its *)
(* crawling flag, which the callers of alterWeights() set and clear        *)
(* between two calls; clientResult is the weightDeltaDelta last drawn.     *)
(***************************************************************************)
\* No weightDeltaDelta was drawn: alterWeights() was not called, or it crawled.
NoWeightDeltaDelta == 0

\* The weightDeltaDelta alterWeights() can draw, the small ones too.
DrawnWeightDeltaDeltas == {r + 1 : r \in RandomModulo(MaximumWeightDeltaDelta)}

WeightDeltaInit ==
  /\ myErrandsLeftCount = 0
  /\ myMustDie = FALSE
  /\ myErrandsQueue = <<>>
  /\ goferPc = [g \in Gofers |-> "none"]
  /\ goferErrand = [g \in Gofers |-> NoErrand]
  /\ clientPc = "constructed"
  /\ clientCv = "running"
  /\ clientResult = NoWeightDeltaDelta
  /\ HistoryInit
  /\ myMaximumTrainingCyclesCount = 0
  /\ myAlive = FALSE
  /\ hasGoferThreadsPool = FALSE
  /\ cyclesCount = 0
  /\ ranksTotal = 0
  /\ crafter = [myMaximumWeightDelta |-> 0, myCrawlToLocalMaximum |-> FALSE]
  /\ matrixDigraphsCount = <<>>
  /\ appliedWeights = <<>>
  /\ desiredMatrixDigraphRank = <<>>
  /\ ranksOfWeights = <<>>
  /\ evaluationsCount = <<>>
  /\ NoMatrixDigraphs
  /\ weightsFile = NoWeightsFile
  /\ eventFile = <<>>
  /\ myVector = <<>>
  /\ weightsFileWasRead = FALSE
  /\ stopCalled = FALSE
  /\ batchesCount = 0
  /\ retriesCount = 0
  /\ lastCycle = NoCycle

WeightDeltaFrame ==
  UNCHANGED <<poolVars, clientCv, historyVars, trainerVars, eventVars, weightsFile, eventFile,
              myVector, trainerHistoryVars>>

\* alterWeights(), as far as myMaximumWeightDelta goes.
WeightDeltaAlterWeights ==
  /\ \E weightDeltaDelta \in DrawnWeightDeltaDeltas :
       /\ crafter' = [crafter EXCEPT !.myMaximumWeightDelta =
                                        NextMaximumWeightDelta(crafter, weightDeltaDelta)]
       /\ clientResult' = IF crafter.myCrawlToLocalMaximum THEN NoWeightDeltaDelta
                          ELSE weightDeltaDelta
  /\ clientPc' = "altered"
  /\ WeightDeltaFrame

\* weightsDidNotImprove() starts the crawling, randomizeAlterings() ends it.
WeightDeltaCrawls ==
  /\ \E crawls \in BOOLEAN : crafter' = [crafter EXCEPT !.myCrawlToLocalMaximum = crawls]
  /\ clientPc' = "called"
  /\ clientResult' = NoWeightDeltaDelta
  /\ WeightDeltaFrame

WeightDeltaNext ==
  \/ WeightDeltaAlterWeights
  \/ WeightDeltaCrawls

WeightDeltaSpec == WeightDeltaInit /\ [][WeightDeltaNext]_vars

(***************************************************************************)
(* randomizeAlterings() alone, on a crafter of any weights count that an   *)
(* Index holds.  randomizeAlterings() reads no weight, and the weights are *)
(* not kept.  myWeightsCount, myMaximumWeightsInterval and the indexes of  *)
(* the alterings are Index, uint32_t: they are kept as limbs, and          *)
(* weightsIndex += ... is computed in 32 bits as the build computes it.    *)
(***************************************************************************)
\* The largest weights count of the small crafters, which is also the largest
\* number of alterings the model follows: a draw that makes the for loop write one
\* more altering is not followed.
MaxSmallWeightsCount == 3
\* Weights counts above 2^31: 2^31 + 1 and 3 * 2^30.
LargeWeightsCounts == {<<1, 0, 2, 0, 0>>, <<0, 0, 3, 0, 0>>}
IndexWeightsCounts ==
  {LimbsOf(weightsCount) : weightsCount \in 1..MaxSmallWeightsCount} \cup LargeWeightsCounts

\* The values of (*myRandomIntegerPointer)() % modulus that the model draws for an
\* Index modulus: the MaxRandom + 1 smallest and the MaxRandom + 1 largest.
IndexRandomModulo(modulus) ==
  {r \in {LimbsOf(q) : q \in 0..MaxRandom}
           \cup {SumOfInt(modulus, -1 - q) : q \in 0..MaxRandom} :
     ~IsLess(r, LimbsOf(0)) /\ IsLess(r, modulus)}

\* myMaximumWeightsInterval: the geometric draws followed are 0, 1 and the ones from
\* myWeightsCount - 1 on, which the comparison with myWeightsCount caps.
IndexMaximumWeightsIntervals(weightsCount) ==
  {interval \in {LimbsOf(1), LimbsOf(2), weightsCount} : ~IsLess(weightsCount, interval)}

RECURSIVE IndexAlterWeightsIndexesFrom(_, _, _, _)
\* The indexes the for loop of randomizeAlterings() visits from weightsIndex on, after
\* it has written 'index' alterings.
IndexAlterWeightsIndexesFrom(weightsIndex, interval, weightsCount, index) ==
  IF ~IsLess(weightsIndex, weightsCount) THEN {<<>>}
  ELSE IF index = MaxSmallWeightsCount THEN {}
  ELSE UNION {{<<weightsIndex>> \o rest :
                 rest \in IndexAlterWeightsIndexesFrom(
                            InFileHeaderDatum(SumOf(weightsIndex, SumOfInt(stride, 1))),
                            interval, weightsCount, index + 1)} :
              stride \in IndexRandomModulo(interval)}

\* The else branch of randomizeAlterings(): every index, for a small weights count.
EveryIndex(weightsCount) ==
  IF IsLess(LimbsOf(MaxSmallWeightsCount), weightsCount) THEN {}
  ELSE {[i \in 1..IntOf(weightsCount) |-> LimbsOf(i - 1)]}

\* randomizeAlterings(): every crafter it can leave.
IndexRandomizeAlterings(c) ==
  UNION {
    LET indexes == IF IsLess(LimbsOf(1), interval)
                   THEN UNION {IndexAlterWeightsIndexesFrom(first, interval,
                                                            c.myWeightsCount, 0) :
                               first \in IndexRandomModulo(interval)}
                   ELSE EveryIndex(c.myWeightsCount)
    IN UNION {{[NotCrawling(c) EXCEPT !.myMaximumWeightsInterval = interval,
                                      !.myAlterWeightsIndexes = plan,
                                      !.myAlterDirections = directions] :
                 directions \in RandomAlterDirections(plan)} :
              plan \in indexes}
    : interval \in IndexMaximumWeightsIntervals(c.myWeightsCount)}

\* GeometricWeightsCrafter(weightsCount), without its weights.
IndexCrafterConstructed(weightsCount) ==
  IndexRandomizeAlterings([myWeightsCount |-> weightsCount,
                           myAlterWeightsIndexes |-> <<>>,
                           myAlterDirections |-> <<>>,
                           myMaximumWeightsInterval |-> LimbsOf(0),
                           myCrawlToLocalMaximum |-> FALSE,
                           myWeightsPreviouslyImproved |-> FALSE])

AlteringsInit ==
  /\ myErrandsLeftCount = 0
  /\ myMustDie = FALSE
  /\ myErrandsQueue = <<>>
  /\ goferPc = [g \in Gofers |-> "none"]
  /\ goferErrand = [g \in Gofers |-> NoErrand]
  /\ clientPc = "constructed"
  /\ clientCv = "running"
  /\ clientResult = 0
  /\ HistoryInit
  /\ myMaximumTrainingCyclesCount = 0
  /\ myAlive = FALSE
  /\ hasGoferThreadsPool = FALSE
  /\ cyclesCount = 0
  /\ ranksTotal = 0
  /\ crafter \in UNION {IndexCrafterConstructed(weightsCount) :
                          weightsCount \in IndexWeightsCounts}
  /\ matrixDigraphsCount = <<>>
  /\ appliedWeights = <<>>
  /\ desiredMatrixDigraphRank = <<>>
  /\ ranksOfWeights = <<>>
  /\ evaluationsCount = <<>>
  /\ NoMatrixDigraphs
  /\ weightsFile = NoWeightsFile
  /\ eventFile = <<>>
  /\ myVector = <<>>
  /\ weightsFileWasRead = FALSE
  /\ stopCalled = FALSE
  /\ batchesCount = 0
  /\ retriesCount = 0
  /\ lastCycle = NoCycle

AlteringsFrame ==
  UNCHANGED <<poolVars, clientCv, clientResult, historyVars, trainerVars, eventVars,
              weightsFile, eventFile, myVector, trainerHistoryVars>>

\* randomizeAlterings(), from the while loop of weightsImproved() or from
\* weightsDidNotImprove().
AlteringsRandomizeAlterings ==
  /\ crafter' \in IndexRandomizeAlterings(crafter)
  /\ clientPc' = "randomized"
  /\ AlteringsFrame

\* weightsImproved() and weightsDidNotImprove() set the two flags that
\* randomizeAlterings() clears.
AlteringsFlagsAreSet ==
  /\ \E crawls \in BOOLEAN, improved \in BOOLEAN :
       crafter' = [crafter EXCEPT !.myCrawlToLocalMaximum = crawls,
                                  !.myWeightsPreviouslyImproved = improved]
  /\ clientPc' = "called"
  /\ AlteringsFrame

AlteringsNext ==
  \/ AlteringsRandomizeAlterings
  \/ AlteringsFlagsAreSet

AlteringsSpec == AlteringsInit /\ [][AlteringsNext]_vars

(***************************************************************************)
(* GeometricWeightsCrafter under every call that the trainer makes on it,  *)
(* in any order: the calls of the crafter alone, readWeightsFromFile() of  *)
(* populateFromArguments(), and the applyWeights() of a matrix digraph,    *)
(* which reads the weights of the crafter.                                 *)
(***************************************************************************)
\* The weights count of the crafter that is called in every way.
BestWeightsCount == 1

BestInit ==
  /\ CrafterConstructed(BestWeightsCount)
  /\ ~weightsFileWasRead

\* readWeightsFromFile() of a weights file of the right size.
CrafterReadWeightsFromFile ==
  /\ CrafterIsCalled("readWeightsFromFile")
  /\ \E fileWeights \in WeightsVectors(crafter.myWeightsCount) :
       crafter' = ReadWeightsFromFile(crafter, fileWeights)
  /\ weightsFileWasRead' = TRUE
  /\ clientPc' = "returned"
  /\ UNCHANGED <<poolVars, clientCv, clientResult, historyVars, myMaximumTrainingCyclesCount,
                 myAlive, hasGoferThreadsPool, ranksTotal, eventVars, weightsFile,
                 eventFile, myVector, stopCalled, batchesCount, retriesCount>>

\* applyWeights() of a matrix digraph: it reads myWeightsCrafterPointer->weights().
CrafterWeightsAreApplied ==
  /\ CrafterIsCalled("applyWeights")
  /\ appliedWeights' = crafter.myWeights
  /\ clientPc' = "returned"
  /\ UNCHANGED <<poolVars, clientCv, clientResult, historyVars, myMaximumTrainingCyclesCount,
                 myAlive, hasGoferThreadsPool, ranksTotal, crafter, matrixDigraphsCount,
                 desiredMatrixDigraphRank, ranksOfWeights, evaluationsCount, digraphVars,
                 weightsFile, eventFile, myVector, weightsFileWasRead, stopCalled,
                 batchesCount, retriesCount>>

BestNext ==
  \/ CrafterWeightsImproved
  \/ CrafterWeightsDidNotImprove
  \/ CrafterRetryLoop
  \/ CrafterBringBackBestWeights
  \/ CrafterReadWeightsFromFile
  \/ CrafterWeightsAreApplied
  \/ CrafterReturn

BestSpec == BestInit /\ [][BestNext]_vars

(***************************************************************************)
(* The weights applyWeights() reads and the values it writes.  A matrix    *)
(* digraph is kept as its counts, which are Index, uint32_t, kept as       *)
(* limbs; the three indexes of applyWeights() are computed in 32 bits as   *)
(* the build computes them.  The weights crafter holds                     *)
(* myRequiredWeightsCount weights.  What the inputs, the weights and the   *)
(* values hold is not kept: no index depends on it.  An access out of a    *)
(* vector is undefined behaviour: the accesses are followed up to the      *)
(* first such access, which is kept, and not further.                      *)
(***************************************************************************)
\* The largest rows count and columns count of the matrix digraphs whose accesses are
\* followed.
MaxAccessRowsCount == 8
MaxAccessColumnsCount == 8
\* Rows counts and columns counts whose product is 2^32: an event file of 17 bytes
\* with such a header is accepted, as its required size wraps in FileHeaderDatum.
WrappedMatrixShapes == {<<4, 1073741824>>, <<8, 536870912>>}
AccessMatrixShapes ==
  ((2..MaxAccessRowsCount) \X (2..MaxAccessColumnsCount)) \cup WrappedMatrixShapes

\* index + int in Index.
IndexPlus(index, int) == InFileHeaderDatum(SumOfInt(index, int))

\* LogarithmicMatrixDigraph(rowsCount, columnsCount) without its vectors; rowsCount is
\* the argument of the constructor, kept for the properties.  rowsCount * 2 does not
\* wrap for the rows counts followed.
AccessedMatrixDigraph(rowsCount, columnsCount) ==
  LET valuesCount == ValuesCountFrom(rowsCount * 2)
      inputsCount == InFileHeaderDatum(ProductOf(LimbsOf(columnsCount), rowsCount))
  IN [rowsCount |-> rowsCount,
      myColumnsCount |-> LimbsOf(columnsCount),
      myInputsCount |-> inputsCount,
      valuesCount |-> LimbsOf(valuesCount),
      myRequiredWeightsCount |-> IndexPlus(InFileHeaderDatum(ProductOf(inputsCount, 2)),
                                           valuesCount - 1),
      weightsRead |-> <<>>,
      valuesWritten |-> <<>>,
      undefined |-> FALSE]

\* myInputs[ingressIndex], (*myWeightsCrafterPointer)[weightsIndex],
\* myValues[ingressIndex] and myValues[egressIndex] = ...: the digraph with the access.
InputIsRead(d, ingressIndex) ==
  IF d.undefined THEN d
  ELSE [d EXCEPT !.undefined = ~IsLess(ingressIndex, d.myInputsCount)]
WeightIsRead(d, weightsIndex) ==
  IF d.undefined THEN d
  ELSE [d EXCEPT !.weightsRead = Append(@, weightsIndex),
                 !.undefined = ~IsLess(weightsIndex, d.myRequiredWeightsCount)]
ValueIsRead(d, ingressIndex) ==
  IF d.undefined THEN d
  ELSE [d EXCEPT !.undefined = ~IsLess(ingressIndex, d.valuesCount)]
ValueIsWritten(d, egressIndex) ==
  IF d.undefined THEN d
  ELSE [d EXCEPT !.valuesWritten = Append(@, egressIndex),
                 !.undefined = ~IsLess(egressIndex, d.valuesCount)]

\* The digraph and the three indexes that a loop leaves.
AccessesAt(d, ingressIndex, weightsIndex, egressIndex) ==
  [d |-> d, ingressIndex |-> ingressIndex, weightsIndex |-> weightsIndex,
   egressIndex |-> egressIndex]

RECURSIVE InputsAccesses(_, _, _, _, _)
\* for (...; ingressIndex != afterLastIngressIndex; ++ingressIndex, ++weightsIndex)
\*   result += myInputs[ingressIndex] * (*myWeightsCrafterPointer)[weightsIndex];
\* followed by myValues[egressIndex++] = result.
InputsAccesses(d, ingressIndex, afterLastIngressIndex, weightsIndex, egressIndex) ==
  IF d.undefined THEN AccessesAt(d, ingressIndex, weightsIndex, egressIndex)
  ELSE IF ingressIndex = afterLastIngressIndex
  THEN AccessesAt(ValueIsWritten(d, egressIndex), ingressIndex, weightsIndex,
                  IndexPlus(egressIndex, 1))
  ELSE InputsAccesses(WeightIsRead(InputIsRead(d, ingressIndex), weightsIndex),
                      IndexPlus(ingressIndex, 1), afterLastIngressIndex,
                      IndexPlus(weightsIndex, 1), egressIndex)

\* The second for loop of the body of the while loop, from what the first one left:
\* ingressIndex -= myColumnsCount.
SecondInputsAccesses(d, first, afterLastIngressIndex) ==
  InputsAccesses(first.d,
                 InFileHeaderDatum(SumOf(first.ingressIndex,
                                         [k \in 1..ValueLimbsCount |-> -d.myColumnsCount[k]])),
                 afterLastIngressIndex, first.weightsIndex, first.egressIndex)

RECURSIVE FirstLayerAccesses(_, _, _, _)
\* The next test of the while loop, from what its body left.
FirstLayerAccessesAfter(second) ==
  FirstLayerAccesses(second.d, second.ingressIndex, second.weightsIndex, second.egressIndex)

\* while (ingressIndex != myInputsCount)
FirstLayerAccesses(d, ingressIndex, weightsIndex, egressIndex) ==
  IF d.undefined \/ ingressIndex = d.myInputsCount
  THEN AccessesAt(d, ingressIndex, weightsIndex, egressIndex)
  ELSE FirstLayerAccessesAfter(
         SecondInputsAccesses(d,
           InputsAccesses(d, ingressIndex,
                          InFileHeaderDatum(SumOf(ingressIndex, d.myColumnsCount)),
                          weightsIndex, egressIndex),
           InFileHeaderDatum(SumOf(ingressIndex, d.myColumnsCount))))

RECURSIVE PairsAccesses(_, _, _, _, _)
\* for (; ingressIndex < ingressLastIndex; ingressIndex += 2, weightsIndex += 2,
\*      ++egressIndex)
PairsAccesses(d, ingressIndex, weightsIndex, egressIndex, ingressLastIndex) ==
  IF d.undefined \/ ~IsLess(ingressIndex, ingressLastIndex)
  THEN AccessesAt(d, ingressIndex, weightsIndex, egressIndex)
  ELSE PairsAccesses(
         ValueIsWritten(
           WeightIsRead(
             ValueIsRead(
               WeightIsRead(ValueIsRead(d, ingressIndex), weightsIndex),
               IndexPlus(ingressIndex, 1)),
             IndexPlus(weightsIndex, 1)),
           egressIndex),
         IndexPlus(ingressIndex, 2), IndexPlus(weightsIndex, 2), IndexPlus(egressIndex, 1),
         ingressLastIndex)

\* if (ingressIndex == ingressLastIndex): the lone last value, after the pairs.
LoneAccesses(pairs, ingressLastIndex) ==
  IF pairs.d.undefined \/ pairs.ingressIndex # ingressLastIndex THEN pairs
  ELSE AccessesAt(ValueIsWritten(
                    WeightIsRead(ValueIsRead(pairs.d, pairs.ingressIndex),
                                 pairs.weightsIndex),
                    pairs.egressIndex),
                  IndexPlus(pairs.ingressIndex, 1), IndexPlus(pairs.weightsIndex, 1),
                  IndexPlus(pairs.egressIndex, 1))

RECURSIVE NextLayersAccesses(_, _)
\* The next test of the outer for loop, from what its body left.
NextLayersAccessesAfter(lone) == NextLayersAccesses(lone, IndexPlus(lone.egressIndex, -1))

\* ingressIndex = 0 and the outer for loop, from what the while loop left.
NextLayersAccessesFrom(first) ==
  NextLayersAccesses([first EXCEPT !.ingressIndex = LimbsOf(0)],
                     IndexPlus(first.egressIndex, -1))

\* for (Index ingressLastIndex{ egressIndex - 1 }; ingressIndex != ingressLastIndex;
\*      ingressLastIndex = egressIndex - 1)
NextLayersAccesses(at, ingressLastIndex) ==
  IF at.d.undefined \/ at.ingressIndex = ingressLastIndex THEN at.d
  ELSE NextLayersAccessesAfter(
         LoneAccesses(PairsAccesses(at.d, at.ingressIndex, at.weightsIndex, at.egressIndex,
                                    ingressLastIndex),
                      ingressLastIndex))

\* applyWeights(): the digraph with the accesses of this call.
AccessesOfApplyWeights(d) ==
  NextLayersAccessesFrom(
    FirstLayerAccesses([d EXCEPT !.weightsRead = <<>>, !.valuesWritten = <<>>],
                       LimbsOf(0), LimbsOf(0), LimbsOf(0)))

AccessInit ==
  /\ myErrandsLeftCount = 0
  /\ myMustDie = FALSE
  /\ myErrandsQueue = <<>>
  /\ goferPc = [g \in Gofers |-> "none"]
  /\ goferErrand = [g \in Gofers |-> NoErrand]
  /\ HistoryInit
  /\ clientPc = "idle"
  /\ clientCv = "running"
  /\ clientResult = 0
  /\ myMaximumTrainingCyclesCount = 0
  /\ myAlive = FALSE
  /\ hasGoferThreadsPool = FALSE
  /\ cyclesCount = 0
  /\ ranksTotal = 0
  /\ crafter = <<>>
  /\ matrixDigraphsCount = <<>>
  /\ appliedWeights = <<>>
  /\ desiredMatrixDigraphRank = <<>>
  /\ ranksOfWeights = <<>>
  /\ evaluationsCount = <<>>
  /\ myMatrixDigraphs = <<>>
  /\ myDesiredMatrixDigraphIndex = <<>>
  /\ matrixDigraphPointer = <<>>
  /\ matrixDigraph = <<>>
  /\ weightsFile = NoWeightsFile
  /\ eventFile = <<>>
  /\ myVector = <<>>
  /\ weightsFileWasRead = FALSE
  /\ stopCalled = FALSE
  /\ batchesCount = 0
  /\ retriesCount = 0
  /\ lastCycle = NoCycle

AccessFrame ==
  UNCHANGED <<poolVars, clientCv, clientResult, historyVars, trainerVars, crafter,
              matrixDigraphsCount, appliedWeights, desiredMatrixDigraphRank, ranksOfWeights,
              evaluationsCount, myMatrixDigraphs, myDesiredMatrixDigraphIndex,
              matrixDigraphPointer, weightsFile, eventFile, myVector, trainerHistoryVars>>

\* LogarithmicMatrixDigraph(rowsCount, columnsCount), as buildMatrixDigraphs()
\* instantiates it for the header of an event file.
AccessConstruct(rowsCount, columnsCount) ==
  /\ clientPc = "idle"
  /\ matrixDigraph' = AccessedMatrixDigraph(rowsCount, columnsCount)
  /\ clientPc' = "constructed"
  /\ AccessFrame

\* applyWeights(), with a weights crafter of myRequiredWeightsCount weights.
AccessApplyWeights ==
  /\ clientPc \in {"constructed", "applied"}
  /\ matrixDigraph' = AccessesOfApplyWeights(matrixDigraph)
  /\ clientPc' = "applied"
  /\ AccessFrame

AccessNext ==
  \/ \E shape \in AccessMatrixShapes : AccessConstruct(shape[1], shape[2])
  \/ AccessApplyWeights

AccessSpec == AccessInit /\ [][AccessNext]_vars

(***************************************************************************)
(* Properties of the pool.                                                 *)
(***************************************************************************)
\* No errand is in the queue, none is being run, and every errand enqueued was run.
PoolIsQuiescent ==
  /\ myErrandsQueue = <<>>
  /\ \A g \in Gofers : goferPc[g] # "run"
  /\ \A e \in Errands : completedCount[e] = enqueuedCount[e]

\* The gofers that are running errand e.
GofersRunning(e) == {g \in Gofers : goferPc[g] = "run" /\ goferErrand[g] = e}

\* C1: when waitForAllErrandsToComplete() returns, every errand that was enqueued
\* before the call has finished running: none is still in the queue and none is
\* still being run by a gofer, whatever the interleaving.
C1_WaitReturnsAfterAllErrands == clientPc = "returned" => PoolIsQuiescent

\* The client is back from a wait that followed the enqueueing of every errand the
\* bound allows, all of which both gofers were there to run.
C1_Witness ==
  /\ clientPc = "returned"
  /\ EnqueuedTotal = MaxEnqueuedErrands
  /\ \A g \in Gofers : goferPc[g] \in {"loop", "waiting", "woken"}

\* C2: the crafter changes only while the pool has no errand queued or running, and
\* the errands of a cycle are enqueued only when every errand of the cycles before
\* has finished: two cycles never overlap, no gofer reads weights being written.
C2_CrafterMutatesOnlyWhenQuiescent ==
  [][(crafter' # crafter \/ enqueuedCount' # enqueuedCount) => PoolIsQuiescent]_vars

\* The crafter has altered the weights after the second batch that the pool ran.
C2_Witness ==
  /\ hasGoferThreadsPool
  /\ clientPc = "next"
  /\ batchesCount = 2
  /\ crafter.myWeights # lastCycle.weights
  /\ \A e \in Errands : completedCount[e] = 2

\* C3: unless the pool is destroyed, under fair scheduling every enqueued errand is
\* eventually run, and a client blocked in waitForAllErrandsToComplete() eventually
\* returns.
C3_PoolLiveness ==
  /\ \A e \in Errands : \A n \in 1..MaxEnqueuedErrands :
       (enqueuedCount[e] >= n) ~> (completedCount[e] >= n \/ myMustDie)
  /\ (clientPc = "wait") ~> (clientPc = "returned")

\* The client is back from waitForAllErrandsToComplete() after errands of every kind
\* were enqueued and run, and the pool is not being destroyed.
C3_Witness ==
  /\ clientPc = "returned"
  /\ EnqueuedTotal = MaxEnqueuedErrands
  /\ \A e \in Errands : completedCount[e] = enqueuedCount[e] /\ completedCount[e] > 0
  /\ ~myMustDie

\* C4: each enqueued errand is run exactly once and by exactly one gofer: it is in
\* the queue, or being run by one gofer, or was run once; so in a cycle each event is
\* evaluated by one errand only, never by two gofers at the same time, and once per
\* batch.
C4_EachErrandRunsOnce ==
  \A e \in Errands :
    /\ enqueuedCount[e] =
         CountIn(e, myErrandsQueue) + Cardinality(GofersRunning(e)) + completedCount[e]
    /\ startedCount[e] = Cardinality(GofersRunning(e)) + completedCount[e]
    /\ Cardinality(GofersRunning(e)) <= 1
    /\ enqueuedCount[e] <= batchesCount
    /\ evaluationsCount[e] <= batchesCount + (IF clientPc = "done" THEN 1 ELSE 0)
    /\ clientPc \in {"ranks", "retry", "next", "loop", "exit", "final"}
         => evaluationsCount[e] = batchesCount

\* Both gofers are evaluating, each its own event, in the second batch.
C4_Witness ==
  /\ batchesCount = 2
  /\ \A e \in Errands : Cardinality(GofersRunning(e)) = 1

(***************************************************************************)
(* Properties of the trainer.                                              *)
(***************************************************************************)
\* The <maximum number of training cycles> of the command line: train() holds
\* myMaximumTrainingCyclesCount one above it from the start of its loop to its end.
MaximumTrainingCyclesArgument ==
  IF clientPc \in {"main", "final", "done"} THEN myMaximumTrainingCyclesCount
  ELSE myMaximumTrainingCyclesCount - 1

\* The client is past train(), which run() calls for more than one training cycle.
TrainReturned ==
  /\ clientPc \in {"final", "done"}
  /\ myMaximumTrainingCyclesCount > 1

\* The total of the ranks that the events compute from a weights vector that was
\* applied to each of them.
RanksTotalOf(weights) ==
  SumOver([e \in Errands |-> ranksOfWeights[e][weights]], Errands)

\* C5: once stop() was called, at any time after the signal handlers were installed,
\* the trainer starts no further batch.
C5_NoBatchStartsAfterStop == [][stopCalled => batchesCount' = batchesCount]_vars

\* C6: when train() returns, best was copied into current before the weights were
\* written: the weights file, if it could be written, and the weights of the final
\* ranks both equal best.
C6_BestIsSavedAndRanked ==
  TrainReturned =>
    /\ crafter.myWeights = crafter.myBestWeights
    /\ weightsFile \in {NoWeightsFile, crafter.myBestWeights}
    /\ clientPc = "done" => \A e \in Errands : appliedWeights[e] = crafter.myBestWeights

\* The final ranks were computed after a stop request ended a training whose last
\* cycle did not improve, and the weights file was written.
C6_Witness ==
  /\ TrainReturned
  /\ clientPc = "done"
  /\ stopCalled
  /\ lastCycle.called = "weightsDidNotImprove"
  /\ lastCycle.weights # crafter.myBestWeights
  /\ weightsFile = crafter.myBestWeights

\* C7: after every completed training cycle, best is a weights vector that was
\* evaluated in some cycle and whose ranks total is the trainer's ranksTotal, also
\* when the initial weights were read from a weights file.
C7_BestWasEvaluatedAndTotalsR ==
  clientPc = "next" =>
    /\ \A e \in Errands : crafter.myBestWeights \in DOMAIN ranksOfWeights[e]
    /\ RanksTotalOf(crafter.myBestWeights) = ranksTotal

\* C8: ranksTotal starts at the sum of the matrixDigraphsCount() of the events and
\* never increases; the comparison replaces it by newRanksTotal and calls
\* weightsImproved() exactly when newRanksTotal < ranksTotal, and otherwise keeps it
\* and calls weightsDidNotImprove().
C8_RanksTotalOnlyDecreases ==
  [][/\ (clientPc = "main" /\ clientPc' = "loop") => ranksTotal' = MaximumRanksTotal
     /\ clientPc # "main" => ranksTotal' <= ranksTotal
     /\ (clientPc = "ranks" /\ clientPc' # "ranks") =>
          IF newRanksTotal < ranksTotal
          THEN /\ ranksTotal' = newRanksTotal
               /\ lastCycle'.called = "weightsImproved"
               /\ crafter'.myBestWeights = crafter.myWeights
          ELSE /\ ranksTotal' = ranksTotal
               /\ lastCycle'.called = "weightsDidNotImprove"
               /\ crafter'.myBestWeights = crafter.myBestWeights]_vars

\* The second cycle improved on the ranks total that the first one had improved.
C8_Witness ==
  /\ clientPc = "next"
  /\ batchesCount = 2
  /\ lastCycle.called = "weightsImproved"
  /\ lastCycle.ranksTotalAfter < lastCycle.ranksTotalBefore
  /\ lastCycle.ranksTotalBefore < MaximumRanksTotal

\* The trainer decides whether another batch is run when run() chooses to train or
\* not, and at every test of the for loop of train().
AtCycleBoundary ==
  /\ clientPc \in {"main", "loop"}
  /\ clientPc' \in {"batch", "exit", "final"}

CrafterReturnedFrom(called) ==
  /\ clientPc = "returned"
  /\ lastCycle.called = called

\* C10 as stated: after weightsImproved() returns, best is what current was on entry,
\* myCrawlToLocalMaximum is what it was on entry and myWeightsPreviouslyImproved is
\* true, whatever the state on entry.
C10_ImprovedKeepsCrawlSetsPreviouslyImproved ==
  CrafterReturnedFrom("weightsImproved") =>
    /\ crafter.myBestWeights = lastCycle.crafter.myWeights
    /\ crafter.myCrawlToLocalMaximum = lastCycle.crafter.myCrawlToLocalMaximum
    /\ crafter.myWeightsPreviouslyImproved

\* C10 amended: after weightsImproved() returns, best is what current was on entry;
\* if its first alterWeights() altered a weight, myCrawlToLocalMaximum is what it was
\* on entry and myWeightsPreviouslyImproved is true; if it altered none, the
\* alterings were randomized again and both flags are false.
C10_ImprovedKeepsCrawlUnlessRandomizedAgain ==
  CrafterReturnedFrom("weightsImproved") =>
    /\ crafter.myBestWeights = lastCycle.crafter.myWeights
    /\ IF NoWeightWasAltered(lastCycle.crafter)
       THEN /\ ~crafter.myCrawlToLocalMaximum
            /\ ~crafter.myWeightsPreviouslyImproved
       ELSE /\ crafter.myCrawlToLocalMaximum = lastCycle.crafter.myCrawlToLocalMaximum
            /\ crafter.myWeightsPreviouslyImproved

\* weightsImproved() has returned from alterings that could alter no weight any more:
\* best is the current of the entry, which the best of the entry was not, and the
\* alterings were randomized again.
C10_Witness ==
  /\ CrafterReturnedFrom("weightsImproved")
  /\ NoWeightWasAltered(lastCycle.crafter)
  /\ lastCycle.crafter.myBestWeights # lastCycle.crafter.myWeights
  /\ crafter.myBestWeights = lastCycle.crafter.myWeights
  /\ crafter.myWeights # crafter.myBestWeights
  /\ ~crafter.myWeightsPreviouslyImproved

\* The flags of a crafter: <<crawl, previously improved>>.
FlagsOf(c) == <<c.myCrawlToLocalMaximum, c.myWeightsPreviouslyImproved>>

\* The current weights are 'base' altered along the alterings of the crafter: a weight
\* out of the plan is the one of base, a planned one has moved in its direction or, at
\* the limit of its direction, has stayed.
CurrentIsAlteredFrom(base) ==
  \A i \in WeightIndexes(crafter) :
    IF AlteringOf(crafter, i) = 0 THEN crafter.myWeights[i] = base[i]
    ELSE IF crafter.myAlterDirections[AlteringOf(crafter, i)]
         THEN crafter.myWeights[i] >= base[i]
         ELSE crafter.myWeights[i] <= base[i]

\* C11: weightsDidNotImprove() called with the flags (false, false) or (true, true)
\* brings back the best weights, randomizes the alterings, alters with random deltas
\* (myMaximumWeightDelta is drawn again), and returns with the flags (false, false).
C11_NoImproveRandomizesFromBothEqualFlags ==
  (/\ CrafterReturnedFrom("weightsDidNotImprove")
   /\ FlagsOf(lastCycle.crafter) \in {<<FALSE, FALSE>>, <<TRUE, TRUE>>}) =>
    /\ FlagsOf(crafter) = <<FALSE, FALSE>>
    /\ crafter.myBestWeights = lastCycle.crafter.myBestWeights
    /\ CurrentIsAlteredFrom(lastCycle.crafter.myBestWeights)
    /\ crafter.myMaximumWeightDelta # lastCycle.crafter.myMaximumWeightDelta

\* weightsDidNotImprove() has returned from a crawl that had improved, with weights
\* that are not the best ones and that were not the best ones on entry either.
C11_Witness ==
  /\ CrafterReturnedFrom("weightsDidNotImprove")
  /\ FlagsOf(lastCycle.crafter) = <<TRUE, TRUE>>
  /\ lastCycle.crafter.myWeights # lastCycle.crafter.myBestWeights
  /\ crafter.myWeights # crafter.myBestWeights

\* The crafter that weightsDidNotImprove() hands to its first alterWeights() when it
\* keeps the alterings: the crafter on entry with its best weights brought back.
EntryWithBestWeights == BringBackBestWeights(lastCycle.crafter)

\* The alterings are the ones of the entry.
AlteringsIndexesAreKept ==
  crafter.myAlterWeightsIndexes = lastCycle.crafter.myAlterWeightsIndexes

\* The current weights are 'base' after one unit step along 'directions' of the
\* alterings of the entry.
CurrentIsUnitStepFrom(base, directions) ==
  \A i \in WeightIndexes(crafter) :
    crafter.myWeights[i] =
      IF AlteringOf(lastCycle.crafter, i) = 0 THEN base[i]
      ELSE AlteredWeight(base[i], directions[AlteringOf(lastCycle.crafter, i)], 1)

\* C12 as stated: weightsDidNotImprove() called with the flags (false, true) brings
\* back the best weights, keeps the alterings, indexes and directions, alters by a
\* unit step, and returns with the flags (true, false).
C12_NoImproveStartsCrawl ==
  (/\ CrafterReturnedFrom("weightsDidNotImprove")
   /\ FlagsOf(lastCycle.crafter) = <<FALSE, TRUE>>) =>
    /\ FlagsOf(crafter) = <<TRUE, FALSE>>
    /\ AlteringsIndexesAreKept
    /\ crafter.myAlterDirections = lastCycle.crafter.myAlterDirections
    /\ crafter.myBestWeights = lastCycle.crafter.myBestWeights
    /\ CurrentIsUnitStepFrom(crafter.myBestWeights, lastCycle.crafter.myAlterDirections)

\* weightsDidNotImprove() has started a crawl: it returned with the flags (true,
\* false) and with weights one step away from the best ones.
C12_Witness ==
  /\ CrafterReturnedFrom("weightsDidNotImprove")
  /\ FlagsOf(lastCycle.crafter) = <<FALSE, TRUE>>
  /\ FlagsOf(crafter) = <<TRUE, FALSE>>
  /\ lastCycle.crafter.myWeights # lastCycle.crafter.myBestWeights
  /\ crafter.myWeights # crafter.myBestWeights

\* The directions of the alterings of the entry, each one negated.
NotTheDirectionsOfTheEntry ==
  [k \in DOMAIN lastCycle.crafter.myAlterDirections |->
     lastCycle.crafter.myAlterDirections[k] = FALSE]

\* C13 as stated: weightsDidNotImprove() called with the flags (true, false) brings
\* back the best weights, reverses the direction of every altering and keeps the
\* indexes, and returns with the flags (true, true).
C13_NoImproveReversesDirections ==
  (/\ CrafterReturnedFrom("weightsDidNotImprove")
   /\ FlagsOf(lastCycle.crafter) = <<TRUE, FALSE>>) =>
    /\ FlagsOf(crafter) = <<TRUE, TRUE>>
    /\ AlteringsIndexesAreKept
    /\ crafter.myAlterDirections = NotTheDirectionsOfTheEntry
    /\ crafter.myBestWeights = lastCycle.crafter.myBestWeights

\* The crafter that weightsDidNotImprove() hands to its first alterWeights() when it
\* reverses the directions: best weights brought back, directions reversed.
EntryWithReversedDirections ==
  [EntryWithBestWeights EXCEPT !.myAlterDirections = NotTheDirectionsOfTheEntry]

\* A call that found the flags (true, true), the directions reversed or the crawl
\* improving, and that did not randomize the alterings again, kept the indexes and
\* the directions: the directions of alterings are reversed once at most.
DirectionsAreReversedOnce ==
  (/\ clientPc = "returned"
   /\ lastCycle.called \in {"weightsImproved", "weightsDidNotImprove"}
   /\ FlagsOf(lastCycle.crafter) = <<TRUE, TRUE>>
   /\ FlagsOf(crafter) # <<FALSE, FALSE>>) =>
    /\ FlagsOf(crafter) = <<TRUE, TRUE>>
    /\ AlteringsIndexesAreKept
    /\ crafter.myAlterDirections = lastCycle.crafter.myAlterDirections

\* C13 amended: so it is when a planned weight of best is not at the limit of its
\* reversed direction, and the weights are then the best ones after a unit step in
\* the reversed directions; when every planned weight is at that limit, the alterings
\* are randomized again and the call returns with the flags (false, false). Reversed
\* directions are not reversed again before the alterings are randomized again.
C13_NoImproveReversesDirectionsUnlessRandomizedAgain ==
  /\ (/\ CrafterReturnedFrom("weightsDidNotImprove")
      /\ FlagsOf(lastCycle.crafter) = <<TRUE, FALSE>>) =>
       /\ crafter.myBestWeights = lastCycle.crafter.myBestWeights
       /\ IF NoWeightWasAltered(EntryWithReversedDirections)
          THEN /\ FlagsOf(crafter) = <<FALSE, FALSE>>
               /\ CurrentIsAlteredFrom(crafter.myBestWeights)
          ELSE /\ FlagsOf(crafter) = <<TRUE, TRUE>>
               /\ AlteringsIndexesAreKept
               /\ crafter.myAlterDirections = NotTheDirectionsOfTheEntry
               /\ crafter.myMaximumWeightDelta = lastCycle.crafter.myMaximumWeightDelta
               /\ CurrentIsUnitStepFrom(crafter.myBestWeights, NotTheDirectionsOfTheEntry)
  /\ DirectionsAreReversedOnce

\* weightsDidNotImprove() has reversed the directions of a crawl that did not improve
\* the weights, and the reversed unit step altered a weight.
C13_Witness ==
  /\ CrafterReturnedFrom("weightsDidNotImprove")
  /\ FlagsOf(lastCycle.crafter) = <<TRUE, FALSE>>
  /\ FlagsOf(crafter) = <<TRUE, TRUE>>
  /\ Len(crafter.myAlterDirections) = 2
  /\ crafter.myAlterDirections = NotTheDirectionsOfTheEntry
  /\ crafter.myWeights # crafter.myBestWeights

\* C14: when weightsImproved() or weightsDidNotImprove() has returned, the current
\* weights differ from the best weights in one index at least.
C14_CurrentDiffersFromBestOnReturn ==
  (\/ CrafterReturnedFrom("weightsImproved")
   \/ CrafterReturnedFrom("weightsDidNotImprove")) =>
    \E i \in WeightIndexes(crafter) : crafter.myWeights[i] # crafter.myBestWeights[i]

\* weightsDidNotImprove() has returned after its first alterWeights() altered no
\* weight of the best weights: the while loop randomized the alterings, and an index
\* of the current weights differs from the best ones.
C14_Witness ==
  /\ CrafterReturnedFrom("weightsDidNotImprove")
  /\ FlagsOf(lastCycle.crafter) = <<TRUE, FALSE>>
  /\ NoWeightWasAltered(EntryWithReversedDirections)
  /\ \E i \in WeightIndexes(crafter) : crafter.myWeights[i] # crafter.myBestWeights[i]

\* The while loop is at its test after an alterWeights() that altered no weight.
CrafterIsLooping == clientPc = "retry"

\* C15: the while loop of a call of the crafter ends, whatever the weights: a turn
\* alters a weight in the end and the call returns, the random draws being fair.
C15_LoopEnds ==
  CrafterIsLooping ~> (clientPc = "returned" /\ crafter.myWeights # crafter.myBestWeights)

\* A call has returned after more than one turn of the loop from weights that are
\* all the maximum weight or all the minimum weight.
C15_Witness ==
  /\ clientPc = "returned"
  /\ lastCycle.called \in {"weightsImproved", "weightsDidNotImprove"}
  /\ \/ \A i \in WeightIndexes(crafter) : crafter.myBestWeights[i] = MaximumWeight
     \/ \A i \in WeightIndexes(crafter) : crafter.myBestWeights[i] = MinimumWeight
  /\ crafter.myMaximumWeightDelta < MaximumWeightDelta - 2 * MaximumWeightDeltaDelta
  /\ crafter.myWeights # crafter.myBestWeights

\* C16: the weights count never changes, every current and every best weight is a
\* Weight, no newWeight that alterWeights() can compute from the current weights
\* leaves WeightCalculator, and what a call stored is the saturated newWeight: each
\* altered weight has moved from the best one in its direction.
C16_WeightsStayInRange ==
  /\ crafter.myWeightsCount = CrafterWeightsCount
  /\ DOMAIN crafter.myWeights = 0..(CrafterWeightsCount - 1)
  /\ DOMAIN crafter.myBestWeights = 0..(CrafterWeightsCount - 1)
  /\ crafter.myMaximumWeightDelta \in 0..MaximumWeightDelta
  /\ \A i \in WeightIndexes(crafter) :
       /\ crafter.myWeights[i] \in MinimumWeight..MaximumWeight
       /\ crafter.myBestWeights[i] \in MinimumWeight..MaximumWeight
       /\ crafter.myWeights[i] + MaximumWeightDelta <= MaximumWeightCalculator
       /\ crafter.myWeights[i] - MaximumWeightDelta >= MinimumWeightCalculator
  /\ (\/ CrafterReturnedFrom("weightsImproved")
      \/ CrafterReturnedFrom("weightsDidNotImprove")) =>
       CurrentIsAlteredFrom(crafter.myBestWeights)

\* A call that does not crawl has returned with a weight that was saturated: the
\* best weight is the 0 of a weights file, the newWeight was past the maximum weight.
C16_Witness ==
  /\ CrafterReturnedFrom("weightsImproved")
  /\ ~crafter.myCrawlToLocalMaximum
  /\ \E i \in WeightIndexes(crafter) :
       /\ AlteringOf(crafter, i) # 0
       /\ crafter.myBestWeights[i] = 0
       /\ crafter.myWeights[i] = MaximumWeight

(***************************************************************************)
(* Properties of an event.                                                 *)
(***************************************************************************)
\* The matrix digraph of the desired matrix: until run() sorts the matrix digraphs,
\* the one at myDesiredMatrixDigraphIndex, where buildMatrixDigraphs() met its name.
DesiredMatrixDigraph == myMatrixDigraphs[myDesiredMatrixDigraphIndex]

\* The matrix digraphs whose unique sink value is the one of the desired matrix
\* digraph at least.
NotLessThanDesired ==
  {index \in DOMAIN myMatrixDigraphs :
     \/ myMatrixDigraphs[index].uniqueSinkValue = DesiredMatrixDigraph.uniqueSinkValue
     \/ IsLess(DesiredMatrixDigraph.uniqueSinkValue,
               myMatrixDigraphs[index].uniqueSinkValue)}

\* C17: the rank an event returns is the number of its matrix digraphs, the desired
\* one included, whose unique sink value is not less than the one of the desired
\* matrix digraph; it is between 1 and the count of the matrix digraphs; it is 2 for
\* two matrix digraphs of the same unique sink value, the second being the desired.
C17_RankCountsSinksNotLessThanDesired ==
  clientPc = "ranked" =>
    /\ DesiredMatrixDigraph.name = myDesiredMatrixDigraphIndex
    /\ desiredMatrixDigraphRank = Cardinality(NotLessThanDesired)
    /\ desiredMatrixDigraphRank >= 1
    /\ desiredMatrixDigraphRank <= matrixDigraphsCount
    /\ (/\ matrixDigraphsCount = 2
        /\ myDesiredMatrixDigraphIndex = 1
        /\ myMatrixDigraphs[0].uniqueSinkValue = myMatrixDigraphs[1].uniqueSinkValue)
         => desiredMatrixDigraphRank = 2

\* The rank was asked for of an event of two matrix digraphs of the same unique sink
\* value, the second being the desired one, and it is 2.
C17_Witness ==
  /\ clientPc = "ranked"
  /\ matrixDigraphsCount = 2
  /\ myDesiredMatrixDigraphIndex = 1
  /\ myMatrixDigraphs[0].uniqueSinkValue = LimbsOf(5)
  /\ myMatrixDigraphs[1].uniqueSinkValue = LimbsOf(5)
  /\ desiredMatrixDigraphRank = 2

(***************************************************************************)
(* Properties of a matrix digraph.                                         *)
(***************************************************************************)
\* The rows of the matrix of a digraph, and the digraph of a matrix of so many rows
\* and columns.
RowsCountOf(d) == d.myInputsCount \div d.myColumnsCount
DigraphIsConstructed == clientPc \in {"constructed", "populated", "ready", "applied"}
DigraphIsOf(rowsCount, columnsCount) ==
  /\ DigraphIsConstructed
  /\ RowsCountOf(matrixDigraph) = rowsCount
  /\ matrixDigraph.myColumnsCount = columnsCount

RECURSIVE LayersWidthsAfter(_)
\* The sum of the widths of the layers after one of 'width' values, each one of
\* ceil(width / 2) values, down to the layer of one value.
LayersWidthsAfter(width) ==
  IF width = 1 THEN 0
  ELSE (width + 1) \div 2 + LayersWidthsAfter((width + 1) \div 2)

\* C18 as stated: the required weights count of a digraph of R rows and C columns is
\* 2*R*C + (the widths of the layers after the first one, which has 2R values) - 1,
\* and it is 17 for 3 rows and 2 columns.
C18_RequiredWeightsCountWithoutFirstLayer ==
  DigraphIsConstructed =>
    /\ matrixDigraph.myRequiredWeightsCount =
         2 * RowsCountOf(matrixDigraph) * matrixDigraph.myColumnsCount
           + LayersWidthsAfter(2 * RowsCountOf(matrixDigraph)) - 1
    /\ DigraphIsOf(3, 2) => matrixDigraph.myRequiredWeightsCount = 17

\* C18 amended: the required weights count is 2*R*C + (the widths of all the layers,
\* the first one of 2R values included) - 1, it is 23 for 3 rows and 2 columns, and
\* applyWeights() uses each of the weights once.
C18_RequiredWeightsCountWithFirstLayer ==
  /\ DigraphIsConstructed =>
       /\ matrixDigraph.myRequiredWeightsCount =
            2 * RowsCountOf(matrixDigraph) * matrixDigraph.myColumnsCount
              + 2 * RowsCountOf(matrixDigraph)
              + LayersWidthsAfter(2 * RowsCountOf(matrixDigraph)) - 1
       /\ DigraphIsOf(3, 2) => matrixDigraph.myRequiredWeightsCount = 23
  /\ clientPc = "applied" =>
       matrixDigraph.weightsIndex = matrixDigraph.myRequiredWeightsCount

\* The digraph of a matrix of 3 rows and 2 columns has applied its 23 weights.
C18_Witness ==
  /\ clientPc = "applied"
  /\ DigraphIsOf(3, 2)
  /\ matrixDigraph.myRequiredWeightsCount = 23
  /\ matrixDigraph.weightsIndex = 23

\* floor(x / 2^15)
FloorOfQuotient(x) ==
  [k \in 1..ValueLimbsCount |->
     IF k < ValueLimbsCount - 1 THEN x[k + 1]
     ELSE IF k = ValueLimbsCount - 1 THEN x[ValueLimbsCount] % LimbCardinality
     ELSE x[ValueLimbsCount] \div LimbCardinality]

RECURSIVE PlainSum(_, _, _, _)
\* The sum over the columns from c on of input[r, c] * w, the weights being the
\* columnsCount ones from 'block' on.
PlainSum(d, r, block, c) ==
  IF c = d.myColumnsCount THEN LimbsOf(0)
  ELSE SumOf(LimbsOf(d.myInputs[r * d.myColumnsCount + c] * d.myWeights[block + c]),
             PlainSum(d, r, block, c + 1))

\* Layer 0 of the reference: two sums for each row, each with its block of weights.
ReferenceFirstLayer(d) ==
  [j \in 1..(2 * RowsCountOf(d)) |->
     PlainSum(d, (j - 1) \div 2, (j - 1) * d.myColumnsCount, 0)]

\* The next layer of the reference, its weights being the ones from 'fresh' on.
ReferenceNextLayer(d, layer, fresh) ==
  [m \in 1..((Len(layer) + 1) \div 2) |->
     IF 2 * m <= Len(layer)
     THEN FloorOfQuotient(SumOf(ProductOf(layer[2 * m - 1], d.myWeights[fresh + 2 * m - 2]),
                                ProductOf(layer[2 * m], d.myWeights[fresh + 2 * m - 1])))
     ELSE FloorOfQuotient(ProductOf(layer[Len(layer)], d.myWeights[fresh + Len(layer) - 1]))]

RECURSIVE ReferenceSinkFrom(_, _, _)
ReferenceSinkFrom(d, layer, fresh) ==
  IF Len(layer) = 1 THEN layer[1]
  ELSE ReferenceSinkFrom(d, ReferenceNextLayer(d, layer, fresh), fresh + Len(layer))

ReferenceSink(d) ==
  ReferenceSinkFrom(d, ReferenceFirstLayer(d), 2 * d.myInputsCount)

\* The inputs and the weights of a digraph are all the same one.
InputsAreAll(input) == \A i \in DOMAIN matrixDigraph.myInputs : matrixDigraph.myInputs[i] = input
WeightsAreAll(weight) ==
  \A i \in DOMAIN matrixDigraph.myWeights : matrixDigraph.myWeights[i] = weight

\* C19: after applyWeights() the unique sink value is the one of the layered
\* reference, whatever the inputs and the weights; it is 0 for the inputs 1, 2, 3, 4
\* of 2 rows and 2 columns and weights that are all 1.
C19_SinkIsLayeredReference ==
  clientPc = "applied" =>
    /\ UniqueSinkValue(matrixDigraph) = ReferenceSink(matrixDigraph)
    /\ (/\ DigraphIsOf(2, 2)
        /\ matrixDigraph.myInputs = [i \in 0..3 |-> i + 1]
        /\ WeightsAreAll(1)) => UniqueSinkValue(matrixDigraph) = LimbsOf(0)

\* The weights were applied to a digraph with a layer of an odd number of values, and
\* the sink is negative and not -1: a negative sum was shifted.
C19_Witness ==
  /\ clientPc = "applied"
  /\ DigraphIsOf(3, 2)
  /\ UniqueSinkValue(matrixDigraph)[ValueLimbsCount] < 0
  /\ UniqueSinkValue(matrixDigraph) # LimbsOf(-1)
  /\ UniqueSinkValue(matrixDigraph) = ReferenceSink(matrixDigraph)

RECURSIVE ThousandsFrom(_, _, _)
ThousandsFrom(groups, k, number) ==
  IF k > Len(groups) THEN number
  ELSE ThousandsFrom(groups, k + 1, SumOf(ProductOf(number, 1000), LimbsOf(groups[k])))
\* The number written in decimal as groups of three digits.
Thousands(groups) == ThousandsFrom(groups, 1, LimbsOf(0))

\* The weights were applied to the digraph of 2 rows and 2 columns whose inputs are
\* all 40000 and whose weights are all 30000.
AppliedThirtyThousands ==
  /\ clientPc = "applied"
  /\ DigraphIsOf(2, 2)
  /\ InputsAreAll(40000)
  /\ WeightsAreAll(30000)

\* C20 as stated: the values of the first layer are then 2 400 000 000, the ones of
\* the next layer 146 484, and the sink is 268 066 406.
C20_ValuesWithoutWeights ==
  AppliedThirtyThousands =>
    /\ \A i \in 0..3 : matrixDigraph.myValues[i] = Thousands(<<2, 400, 0, 0>>)
    /\ \A i \in 4..5 : matrixDigraph.myValues[i] = Thousands(<<146, 484>>)
    /\ UniqueSinkValue(matrixDigraph) = Thousands(<<268, 66, 406>>)

\* C20 amended: the values of the first layer are then 2 400 000 000, the ones of the
\* next layer floor(2 * 2 400 000 000 * 30000 / 2^15) = 4 394 531 250, and the sink is
\* floor(2 * 4 394 531 250 * 30000 / 2^15) = 8 046 627 044.
C20_ValuesWithWeights ==
  AppliedThirtyThousands =>
    /\ \A i \in 0..3 : matrixDigraph.myValues[i] = Thousands(<<2, 400, 0, 0>>)
    /\ \A i \in 4..5 : matrixDigraph.myValues[i] = Thousands(<<4, 394, 531, 250>>)
    /\ UniqueSinkValue(matrixDigraph) = Thousands(<<8, 46, 627, 44>>)

\* The weights, all 30000, were applied to the inputs, all 40000, of a digraph of 2
\* rows and 2 columns: 7 values, the last one the sink.
C20_Witness ==
  /\ AppliedThirtyThousands
  /\ Cardinality(DOMAIN matrixDigraph.myValues) = 7
  /\ UniqueSinkValue(matrixDigraph) = Thousands(<<8, 46, 627, 44>>)

(***************************************************************************)
(* Properties of the evaluations of train().                               *)
(***************************************************************************)
\* The unique sink value of a matrix digraph that was just constructed for these
\* inputs and that applies these weights once, alone.
SequentialUniqueSinkValue(inputs, weights) ==
  UniqueSinkValue(AppliedWeights(
    [LogarithmicMatrixDigraph(EvaluationRowsCount, EvaluationColumnsCount)
       EXCEPT !.myInputs = inputs, !.myWeights = weights]))

\* The unique sink values of the matrix digraphs of an event, from its inputs and
\* from these weights alone.
SequentialUniqueSinkValues(e, weights) ==
  [index \in DOMAIN myMatrixDigraphs[e] |->
     SequentialUniqueSinkValue(myMatrixDigraphs[e][index].myInputs, weights)]

\* The total of the ranks, from the inputs of the events and from these weights alone.
SequentialRanksTotal(weights) ==
  SumOver([e \in Errands |->
             LET sinks == SequentialUniqueSinkValues(e, weights)
             IN Cardinality({index \in DOMAIN sinks :
                               ~IsLess(sinks[index], sinks[myDesiredMatrixDigraphIndex[e]])})],
          Errands)

\* C21: when a batch of evaluations is complete, through the pool under any
\* interleaving of its gofer threads or on the main thread, every matrix digraph has
\* applied the weights and its unique sink value is the one that its inputs and the
\* weights of the crafter determine, and the total of the ranks that train() then
\* computes is the one that the inputs and these weights determine.
C21_EvaluationIsIndependentOfThreading ==
  /\ clientPc = "ranks" =>
       \A e \in Errands : \A index \in DOMAIN myMatrixDigraphs[e] :
          /\ myMatrixDigraphs[e][index].weightsIndex
               = myMatrixDigraphs[e][index].myRequiredWeightsCount
          /\ UniqueSinkValue(myMatrixDigraphs[e][index])
               = SequentialUniqueSinkValues(e, crafter.myWeights)[index]
  /\ clientPc = "next" => lastCycle.newRanksTotal = SequentialRanksTotal(lastCycle.weights)

\* The pool has completed its second batch, of other weights than the first, and the
\* total of the ranks is not the one the first batch left.
C21_Witness ==
  /\ hasGoferThreadsPool
  /\ clientPc = "next"
  /\ batchesCount = 2
  /\ lastCycle.newRanksTotal # lastCycle.ranksTotalBefore
  /\ lastCycle.newRanksTotal = SequentialRanksTotal(lastCycle.weights)
  /\ \A e \in Errands : completedCount[e] = 2

(***************************************************************************)
(* Properties of the arithmetic of applyWeights().                         *)
(***************************************************************************)
\* C22: whatever the shape of a matrix that the loader accepts, its inputs and its
\* weights, no product and no sum of applyWeights() overflows: the product of an input
\* and a weight is in the 32 bits of an int, every value of a layer and every sum
\* before its shift are in the 64 bits of Value.
C22_NoArithmeticOverflows ==
  clientPc = "applied" => ~matrixDigraph.overflowed

\* The large matrix, whose inputs are the largest and whose weights are the least,
\* after an applyWeights() that has overflowed.
C22_LargeMatrixOverflows ==
  /\ clientPc = "applied"
  /\ matrixDigraph.rowsCount = LargeRowsCount
  /\ matrixDigraph.overflowed
(***************************************************************************)
(* Properties of buildMatrixDigraphs().                                    *)
(***************************************************************************)
\* C23: when buildMatrixDigraphs() returns false the event holds no matrix digraph
\* and no desired matrix digraph index; when it returns true the event holds the
\* matricesCount matrix digraphs of the header and the index of the one that has the
\* desired matrix name.
C23_FailureLeavesNoPartialState ==
  clientPc = "returned" =>
    IF clientResult
    THEN /\ DOMAIN myMatrixDigraphs = 0..(eventFile.header.matricesCount - 1)
         /\ \A index \in DOMAIN myMatrixDigraphs : myMatrixDigraphs[index] # NullPointer
         /\ myDesiredMatrixDigraphIndex \in DOMAIN myMatrixDigraphs
         /\ myMatrixDigraphs[myDesiredMatrixDigraphIndex].name = DesiredMatrixName
    ELSE /\ DOMAIN myMatrixDigraphs = {}
         /\ myDesiredMatrixDigraphIndex = InvalidIndex

\* The size in bytes that the header of a file tells, as a number.
ExactEventFileSize(header) ==
  SumOf(LimbsOf(SizeOfHeader),
        ProductOf(SumOf(LimbsOf(header.matrixNameSize),
                        ProductOf(ProductOf(LimbsOf(header.matrixRowsCount),
                                            header.matrixColumnsCount),
                                  SizeOfInput)),
                  header.matricesCount))

\* C24: a matrix digraph pointer is created only for a file whose header holds a
\* matrices count of 1 at least, rows and columns counts of 2 at least, a name size of
\* 1 at least, and whose size is the 16 bytes of the header and, for each matrix, the
\* bytes of its name and the 2 bytes of each of its rows * columns inputs, computed
\* as numbers, without any wrap-around.
C24_AcceptedOnlyWithExactSize ==
  (clientPc = "returned" /\ DOMAIN myMatrixDigraphs # {}) =>
    /\ eventFile.header.matricesCount >= 1
    /\ eventFile.header.matrixRowsCount >= 2
    /\ eventFile.header.matrixColumnsCount >= 2
    /\ eventFile.header.matrixNameSize >= 1
    /\ LimbsOf(eventFile.size) = ExactEventFileSize(eventFile.header)
(***************************************************************************)
(* Properties of populateFromArguments().                                  *)
(***************************************************************************)
\* C25: populateFromArguments() returns false, its events being incompatible, whenever
\* two of the event files have different matrix rows counts or different matrix
\* columns counts.
C25_DifferentShapesAreIncompatible ==
  clientPc = "returned" =>
    \A e1, e2 \in Errands :
       (\/ eventFile[e1].matrixRowsCount # eventFile[e2].matrixRowsCount
        \/ eventFile[e1].matrixColumnsCount # eventFile[e2].matrixColumnsCount)
         => ~clientResult

(***************************************************************************)
(* Properties of the weights file.                                         *)
(***************************************************************************)
\* C26  writeWeightsToFile() that returns the file name has written exactly
\* 2 * myWeightsCount bytes (and has left the weights alone); readWeightsFromFile()
\* of that file into a crafter of the same weights count, when it returns true,
\* leaves every weight equal to the weight that was written; and a file of any
\* other size than 2 * myWeightsCount is refused with the weights unchanged.
C26_WeightsFileRoundTrip ==
  [][/\ (clientPc = "idle" /\ clientPc' = "written" /\ clientResult')
          => /\ Len(weightsFile'.bytes) = 2 * crafter.myWeightsCount
             /\ crafter' = crafter
     /\ (clientPc = "constructed" /\ clientPc' = "read")
          => /\ (/\ weightsFile.named
                 /\ crafter.myWeightsCount = Cardinality(DOMAIN weightsFile.weights))
                  => /\ Len(weightsFile.bytes) = 2 * crafter.myWeightsCount
                     /\ clientResult'
                          => \A w \in 0..(crafter.myWeightsCount - 1) :
                               crafter'.myWeights[w] = weightsFile.weights[w]
             /\ Len(weightsFile.bytes) # 2 * crafter.myWeightsCount
                  => /\ ~clientResult'
                     /\ crafter' = crafter]_vars

\* A file that was written whole from weights with a negative one and a positive
\* one was read whole into a crafter whose constructor had drawn other weights.
C26_Witness ==
  /\ clientPc = "read"
  /\ clientResult
  /\ weightsFile.named
  /\ crafter.myWeightsCount = 2
  /\ crafter.myWeights = weightsFile.weights
  /\ crafter.myWeights[0] = -1
  /\ crafter.myWeights[1] = BytesCardinality

(***************************************************************************)
(* Properties of the count of errands left, of the enqueueing and of the   *)
(* destruction of the pool.                                                *)
(***************************************************************************)
\* The gofers that count for an errand they took: those running one, and those
\* whose errand has returned and that have not yet locked myMutex to discount it.
GofersWithErrand ==
  {g \in Gofers : goferPc[g] = "run" \/ (goferPc[g] = "loop" /\ goferErrand[g] # NoErrand)}

\* C27  errandsLeftCount() always equals the number of errands waiting in the queue
\* plus the number being run (an errand counts as run until its gofer has taken the
\* mutex again): so it is 0 on a pool on which no errand was enqueued yet, 1 after one
\* errand was enqueued on an idle pool until that errand has completed, and 0 after
\* waitForAllErrandsToComplete() has returned.
C27_ErrandsLeftIsQueuedPlusRunning ==
  myErrandsLeftCount = Len(myErrandsQueue) + Cardinality(GofersWithErrand)

\* The callable errands of a container, counted one by one.
CallableCount(container) ==
  Cardinality({i \in DOMAIN container : container[i] # EmptyErrand})

\* What a call that enqueues count errands leaves: the queue longer by count
\* callable errands, after those it held, and the count of errands left raised by
\* count.
EnqueuedExactly(count) ==
  /\ clientResult' = count
  /\ myErrandsLeftCount' = myErrandsLeftCount + count
  /\ Len(myErrandsQueue') = Len(myErrandsQueue) + count
  /\ SubSeq(myErrandsQueue', 1, Len(myErrandsQueue)) = myErrandsQueue
  /\ \A i \in DOMAIN myErrandsQueue' : myErrandsQueue'[i] # EmptyErrand

\* C28  Non-callable errands are never enqueued: enQueueErrand() of an empty errand
\* returns false and leaves the queue and the count of errands left unchanged, and
\* enQueueErrands() returns the number of callable errands of the container and
\* raises the count of errands left by exactly that number, which is 0 for an empty
\* container and for a container of empty errands only.
C28_OnlyCallableErrandsAreEnqueued ==
  [][/\ \A errand \in ErrandValues :
          (clientPc = "idle" /\ EnQueueErrand(errand, "notify", "idle"))
            => EnqueuedExactly(IF errand = EmptyErrand THEN 0 ELSE 1)
     /\ \A container \in Containers :
          (clientPc = "idle" /\ EnQueueErrands(container, "notify", "idle"))
            => EnqueuedExactly(CallableCount(container))]_vars

\* An enqueueing has returned 1 and has left its errand in the queue behind the
\* errand that waited there, before it notifies a gofer.
C28_Witness ==
  /\ clientPc = "notify"
  /\ clientResult = 1
  /\ Len(myErrandsQueue) = MaxEnqueuedErrands - 1
  /\ myErrandsLeftCount >= Len(myErrandsQueue)
  /\ \A i \in DOMAIN myErrandsQueue : myErrandsQueue[i] # EmptyErrand

C30_NoErrandStartsAfterMustDie ==
  /\ [][myMustDie => /\ startedCount' = startedCount
                     /\ myErrandsQueue' = myErrandsQueue
                     /\ \A g \in Gofers : goferPc'[g] = "run" => goferPc[g] = "run"]_vars
  /\ myMustDie ~> (clientPc = "destroyed" /\ \A g \in Gofers : goferPc[g] = "dead")

\* The destructor has returned and has left in the queue errands that were never
\* started.
C30_Witness ==
  /\ clientPc = "destroyed"
  /\ myErrandsQueue # <<>>
  /\ \E e \in Errands : startedCount[e] < enqueuedCount[e]

(***************************************************************************)
(* Properties of the order of the errands and of the count of errands left.*)
(***************************************************************************)
\* The errands of a container that are callable, in the order of the container.
InOrderOfContainer(container) == SelectSeq(container, LAMBDA errand : errand # EmptyErrand)

\* C31  The gofers take the errands from the queue in the order in which they were
\* enqueued: a gofer that starts an errand takes the oldest errand of the queue and
\* leaves the others in their order, and an enqueueing, of one errand or of a
\* container, puts its errands behind every errand already in the queue, those of a
\* container in the order of the container.
C31_ErrandsAreTakenInEnqueueOrder ==
  [][/\ startedCount' # startedCount
          => /\ myErrandsQueue # <<>>
             /\ startedCount' = [startedCount EXCEPT ![myErrandsQueue[1]] = @ + 1]
             /\ \E g \in Gofers : /\ goferPc[g] # "run"
                                  /\ goferPc'[g] = "run"
                                  /\ goferErrand'[g] = myErrandsQueue[1]
             /\ myErrandsQueue' = SubSeq(myErrandsQueue, 2, Len(myErrandsQueue))
     /\ (myErrandsQueue' # myErrandsQueue /\ startedCount' = startedCount)
          => /\ Len(myErrandsQueue') > Len(myErrandsQueue)
             /\ SubSeq(myErrandsQueue', 1, Len(myErrandsQueue)) = myErrandsQueue
     /\ \A errand \in Errands :
          (clientPc = "idle" /\ EnQueueErrand(errand, "notify", "idle"))
            => myErrandsQueue' = myErrandsQueue \o <<errand>>
     /\ \A container \in Containers :
          (clientPc = "idle" /\ EnQueueErrands(container, "notify", "idle"))
            => myErrandsQueue' = myErrandsQueue \o InOrderOfContainer(container)]_vars

\* A gofer runs the errand that was enqueued first while the two errands enqueued
\* after it, of which the last is of the same kind, wait in their order.
C31_Witness ==
  /\ \E g \in Gofers : goferPc[g] = "run" /\ goferErrand[g] = 1
  /\ myErrandsQueue = <<2, 1>>
  /\ startedCount = [e \in Errands |-> IF e = 1 THEN 1 ELSE 0]

\* C39  The count of errands left never underflows and is never less than the
\* number of errands in the queue: a gofer discounts only what an enqueueing or its
\* own start has counted, and it takes an errand only from a queue that holds one.
C39_ErrandsLeftCountNeverUnderflows ==
  [][/\ myErrandsLeftCount >= Len(myErrandsQueue)
     /\ myErrandsLeftCount' >= Len(myErrandsQueue')
     /\ myErrandsLeftCount' >= 0
     /\ myErrandsLeftCount' < myErrandsLeftCount
          => /\ myErrandsLeftCount' = myErrandsLeftCount - 1
             /\ myErrandsLeftCount >= 1 + Len(myErrandsQueue)
     /\ Len(myErrandsQueue') < Len(myErrandsQueue)
          => /\ myErrandsQueue # <<>>
             /\ Len(myErrandsQueue') = Len(myErrandsQueue) - 1]_vars

\* A gofer has discounted the errand it ran and has taken the next one: the count
\* is the errand it runs and the one that waits.
C39_Witness ==
  /\ myErrandsLeftCount = 2
  /\ Len(myErrandsQueue) = 1
  /\ \E g \in Gofers : goferPc[g] = "run" /\ completedCount[goferErrand[g]] > 0
  /\ \A g \in Gofers : goferPc[g] \in {"run", "waiting"}

(***************************************************************************)
(* Properties of Array.                                                    *)
(***************************************************************************)
\* A call that throws and leaves every array as it was.
ThrowsAndLeavesArraysAlone == clientResult' = "threw" /\ myVector' = myVector

\* C32 as it is stated: the size of an Array is set once. An assignment, by copy or
\* by move, to an array that is not empty from an array of another size, a swap of
\* arrays of different sizes and a setSize() to another size of an array that is not
\* empty throw and leave every array as it was; each of these calls between equal
\* sizes or on an empty receiver returns.
C32_ArrayOperationsIntoEmptyReturn ==
  [][/\ \A array \in ArrayNames : \A otherArray \in ArrayNames \ {array} :
          /\ (ArrayCopyAssign(array, otherArray) \/ ArrayMoveAssign(array, otherArray))
               => IF myVector[array] # <<>> /\ Len(myVector[array]) # Len(myVector[otherArray])
                  THEN ThrowsAndLeavesArraysAlone
                  ELSE clientResult' = "returned"
          /\ ArraySwap(array, otherArray)
               => /\ Len(myVector[array]) # Len(myVector[otherArray])
                       => ThrowsAndLeavesArraysAlone
                  /\ (myVector[array] = <<>> \/ Len(myVector[array]) = Len(myVector[otherArray]))
                       => clientResult' = "returned"
     /\ \A array \in ArrayNames, newSize \in 0..MaxArraySize :
          ArraySetSize(array, newSize)
            => IF myVector[array] # <<>> /\ Len(myVector[array]) # newSize
               THEN ThrowsAndLeavesArraysAlone
               ELSE clientResult' = "returned"]_vars

\* C32, amended: as above, but a swap returns between arrays of equal sizes only;
\* the swap of an empty array with one that is not empty throws like any swap of
\* different sizes. What returns does what it is called for: the receiver of an
\* assignment holds the elements of the other array, two swapped arrays hold each
\* other's elements, and an empty array sized to newSize has newSize elements.
C32_ArraySizeIsSetOnce ==
  [][/\ \A array \in ArrayNames : \A otherArray \in ArrayNames \ {array} :
          /\ (ArrayCopyAssign(array, otherArray) \/ ArrayMoveAssign(array, otherArray))
               => IF myVector[array] # <<>> /\ Len(myVector[array]) # Len(myVector[otherArray])
                  THEN ThrowsAndLeavesArraysAlone
                  ELSE /\ clientResult' = "returned"
                       /\ myVector'[array] = myVector[otherArray]
          /\ ArraySwap(array, otherArray)
               => IF Len(myVector[array]) # Len(myVector[otherArray])
                  THEN ThrowsAndLeavesArraysAlone
                  ELSE /\ clientResult' = "returned"
                       /\ myVector'[array] = myVector[otherArray]
                       /\ myVector'[otherArray] = myVector[array]
     /\ \A array \in ArrayNames, newSize \in 0..MaxArraySize :
          ArraySetSize(array, newSize)
            => IF myVector[array] # <<>> /\ Len(myVector[array]) # newSize
               THEN ThrowsAndLeavesArraysAlone
               ELSE /\ clientResult' = "returned"
                    /\ Len(myVector'[array]) = newSize]_vars

\* An assignment to an array of one element from an array of two has thrown and has
\* left both as they were, with different first elements.
C32_Witness ==
  /\ clientPc \in {"operator=(Array const&)", "operator=(Array&&)"}
  /\ clientResult = "threw"
  /\ Len(myVector["a"]) = 2
  /\ Len(myVector["b"]) = 1
  /\ myVector["a"][1] # myVector["b"][1]

(***************************************************************************)
(* Properties of the constructor of the crafter and of its maximum weight  *)
(* delta.                                                                  *)
(***************************************************************************)
\* The constructor of the crafter has returned, no weights file was read and no
\* method of the crafter was called yet.
CrafterIsJustConstructed == cyclesCount = 0 /\ clientPc = "idle" /\ ~weightsFileWasRead

\* C33 as it is stated: the constructor ends with an alteration applied, so that
\* after it has returned, no weights file read, the current weights differ from the
\* best weights in one index at least.
C33_ConstructedCurrentDiffersFromBest ==
  CrafterIsJustConstructed
    => \E i \in WeightIndexes(crafter) : crafter.myWeights[i] # crafter.myBestWeights[i]

\* C33, amended: the constructor ends with the alterings drawn and not applied:
\* after it has returned, no weights file read, every current weight is the best
\* weight of its index and one of those the constructor draws, alterings are planned
\* and the flags and the maximum weight delta are as constructed; the first weights
\* evaluated are the remembered ones.
C33_ConstructedCurrentIsBest ==
  CrafterIsJustConstructed
    => /\ \A i \in WeightIndexes(crafter) :
            /\ crafter.myWeights[i] = crafter.myBestWeights[i]
            /\ crafter.myWeights[i] \in MinimumWeight..MaximumWeight
       /\ crafter.myAlterWeightsIndexes # <<>>
       /\ ~crafter.myCrawlToLocalMaximum
       /\ ~crafter.myWeightsPreviouslyImproved
       /\ crafter.myMaximumWeightDelta = 0

\* A crafter is just constructed with weights that are not zeroes, which are its
\* best weights, and with one altering planned.
C33_Witness ==
  /\ CrafterIsJustConstructed
  /\ crafter.myWeights = crafter.myBestWeights
  /\ crafter.myWeights[0] = MinimumWeight
  /\ crafter.myWeights[1] = MaximumWeight
  /\ Len(crafter.myAlterWeightsIndexes) = 1

\* C34  alterWeights() that does not crawl draws a weightDeltaDelta in [1, 65] and
\* sets myMaximumWeightDelta to 65535 if weightDeltaDelta + 2 exceeds it, and
\* decreases it by weightDeltaDelta otherwise; alterWeights() that crawls leaves it as
\* it is. So whenever a delta of a weight is drawn, myMaximumWeightDelta, the modulus
\* of the draw, is in [1, 65535] and is not zero.
C34_MaximumWeightDeltaIsAModulus ==
  [][clientPc' = "altered"
       => IF crafter.myCrawlToLocalMaximum
          THEN crafter'.myMaximumWeightDelta = crafter.myMaximumWeightDelta
          ELSE /\ clientResult' \in 1..65
               /\ crafter'.myMaximumWeightDelta =
                    IF clientResult' + 2 > crafter.myMaximumWeightDelta THEN 65535
                    ELSE crafter.myMaximumWeightDelta - clientResult'
               /\ crafter'.myMaximumWeightDelta \in 1..65535]_vars

\* alterWeights() has drawn the largest weightDeltaDelta and has left 2, the least
\* maximum weight delta there is, from which the next call cycles back.
C34_Witness ==
  /\ clientPc = "altered"
  /\ clientResult = 65
  /\ crafter.myMaximumWeightDelta = 2
  /\ ~crafter.myCrawlToLocalMaximum

(***************************************************************************)
(* Properties of randomizeAlterings().                                     *)
(***************************************************************************)
\* randomizeAlterings() has just returned, to the constructor or to a later caller.
AlteringsAreRandomized == clientPc \in {"constructed", "randomized"}

\* The alterings are strictly increasing indexes below the weights count.
AlteringsAreIncreasing(c) ==
  /\ \A k \in 1..Len(c.myAlterWeightsIndexes) :
       IsLess(c.myAlterWeightsIndexes[k], c.myWeightsCount)
  /\ \A k \in 1..(Len(c.myAlterWeightsIndexes) - 1) :
       IsLess(c.myAlterWeightsIndexes[k], c.myAlterWeightsIndexes[k + 1])

\* The first altering is below the maximum weights interval, and two alterings in a
\* row are at most that interval apart.
AlteringsAreWithinInterval(c) ==
  /\ IsLess(c.myAlterWeightsIndexes[1], c.myMaximumWeightsInterval)
  /\ \A k \in 1..(Len(c.myAlterWeightsIndexes) - 1) :
       ~IsLess(SumOf(c.myAlterWeightsIndexes[k], c.myMaximumWeightsInterval),
               c.myAlterWeightsIndexes[k + 1])

\* The alterings are every index from 0 to the weights count - 1.
AlteringsAreEveryIndex(c) ==
  /\ LimbsOf(Len(c.myAlterWeightsIndexes)) = c.myWeightsCount
  /\ \A k \in 1..Len(c.myAlterWeightsIndexes) : c.myAlterWeightsIndexes[k] = LimbsOf(k - 1)

\* What C35 states of the crafter that randomizeAlterings() leaves.
AlteringsAreAsStated(c) ==
  /\ c.myAlterWeightsIndexes # <<>>
  /\ AlteringsAreIncreasing(c)
  /\ IF IsLess(LimbsOf(1), c.myMaximumWeightsInterval)
     THEN AlteringsAreWithinInterval(c)
     ELSE AlteringsAreEveryIndex(c)
  /\ Len(c.myAlterDirections) = Len(c.myAlterWeightsIndexes)
  /\ ~c.myCrawlToLocalMaximum
  /\ ~c.myWeightsPreviouslyImproved

\* C35 as stated: after every randomizeAlterings() the alterings are not empty,
\* strictly increasing and below the weights count; for a maximum weights interval
\* above 1 the first one is below the interval and two in a row are 1 to the
\* interval apart, otherwise they are every index; each has one direction, and the
\* crafter neither crawls nor has previously improved.  It does not hold for a
\* weights count above 2^31, where weightsIndex += ... wraps in uint32_t.
C35_AlteringsAreIncreasingWithinInterval ==
  AlteringsAreRandomized => AlteringsAreAsStated(crafter)

\* The same of the crafters whose weights count is 2^31 at most, which holds.
C35_SmallAlteringsAreIncreasingWithinInterval ==
  (AlteringsAreRandomized /\ ~IsLess(<<0, 0, 2, 0, 0>>, crafter.myWeightsCount))
    => AlteringsAreAsStated(crafter)

\* randomizeAlterings() returned on a crafter of 2^31 + 1 weights whose first
\* altering is 2^31 and whose second is 1.
C35_AlteringsWrapped ==
  /\ clientPc = "randomized"
  /\ crafter.myWeightsCount = <<1, 0, 2, 0, 0>>
  /\ crafter.myAlterWeightsIndexes = <<<<0, 0, 2, 0, 0>>, LimbsOf(1)>>

(***************************************************************************)
(* Properties of alterWeights().                                           *)
(***************************************************************************)
\* This step calls alterWeights(): it is the first test of the while loop of
\* weightsImproved() or of weightsDidNotImprove(), or one more turn of that loop.
AlterWeightsIsCalled ==
  \/ clientPc = "retry" /\ clientPc' \in {"retry", "returned"}
  \/ /\ clientPc = "idle"
     /\ clientPc' \in {"retry", "returned"}
     /\ lastCycle'.called \in {"weightsImproved", "weightsDidNotImprove"}

\* The weights alterWeights() is called on in this step: the best weights that
\* weightsDidNotImprove() has just brought back, the weights that weightsImproved()
\* has just remembered, or the weights a turn of the loop has found.
WeightsToAlter ==
  IF clientPc = "idle" /\ lastCycle'.called = "weightsDidNotImprove"
  THEN crafter.myBestWeights
  ELSE crafter.myWeights

\* newWeight is weight moved in the direction: left alone at the bound of the
\* direction, moved by 1 when crawling, and otherwise moved by 1 to maximumWeightDelta
\* and not beyond the bound.
WeightIsMovedAsPlanned(weight, newWeight, direction, crawls, maximumWeightDelta) ==
  LET move == IF direction THEN newWeight - weight ELSE weight - newWeight
      bound == IF direction THEN MaximumWeight ELSE MinimumWeight
  IN IF weight = bound THEN newWeight = weight
     ELSE IF crawls THEN move = 1
     ELSE /\ move >= 1
          /\ move <= maximumWeightDelta
          /\ newWeight >= MinimumWeight
          /\ newWeight <= MaximumWeight

\* C36: alterWeights() moves each weight of the alterings in its direction only, by 1
\* when it crawls and by 1 to myMaximumWeightDelta otherwise, saturating at
\* MinimumWeight and MaximumWeight; a weight at the bound of its direction is left
\* unchanged, and alterWeights() reports that a weight was altered exactly when the
\* value of a weight has changed.
C36_AlterWeightsMovesAsPlanned ==
  [][AlterWeightsIsCalled =>
       /\ \A k \in 1..Len(crafter'.myAlterWeightsIndexes) :
            WeightIsMovedAsPlanned(WeightsToAlter[crafter'.myAlterWeightsIndexes[k]],
                                   crafter'.myWeights[crafter'.myAlterWeightsIndexes[k]],
                                   crafter'.myAlterDirections[k],
                                   crafter'.myCrawlToLocalMaximum,
                                   crafter'.myMaximumWeightDelta)
       /\ (clientPc' = "returned")
            <=> (\E i \in 0..(crafter'.myWeightsCount - 1) :
                   crafter'.myWeights[i] # WeightsToAlter[i])]_vars

\* A crawling alterWeights() of weightsDidNotImprove() has left alone a weight that
\* was at the bound of its direction and has moved another one by 1.
C36_Witness ==
  /\ CrafterReturnedFrom("weightsDidNotImprove")
  /\ retriesCount = 0
  /\ crafter.myCrawlToLocalMaximum
  /\ \E k, j \in 1..Len(crafter.myAlterWeightsIndexes) :
       /\ crafter.myWeights[crafter.myAlterWeightsIndexes[k]]
            = (IF crafter.myAlterDirections[k] THEN MaximumWeight ELSE MinimumWeight)
       /\ crafter.myBestWeights[crafter.myAlterWeightsIndexes[k]]
            = crafter.myWeights[crafter.myAlterWeightsIndexes[k]]
       /\ crafter.myWeights[crafter.myAlterWeightsIndexes[j]]
            = crafter.myBestWeights[crafter.myAlterWeightsIndexes[j]]
                + (IF crafter.myAlterDirections[j] THEN 1 ELSE -1)

(***************************************************************************)
(* Properties of the best weights.                                         *)
(***************************************************************************)
\* C37: the best weights are written on acceptance only: weightsDidNotImprove(),
\* bringBackBestWeights(), applyWeights() and readWeightsFromFile() leave them
\* unchanged, and of the calls that follow the construction only weightsImproved()
\* writes them.
C37_BestWeightsAreWrittenOnAcceptanceOnly ==
  [][crafter'.myBestWeights # crafter.myBestWeights
       => clientPc = "idle" /\ lastCycle'.called = "weightsImproved"]_vars

\* readWeightsFromFile() has returned: the weights are the ones of the weights file,
\* and the best weights are still the ones of its entry, which are others.
C37_Witness ==
  /\ CrafterReturnedFrom("readWeightsFromFile")
  /\ crafter.myBestWeights = lastCycle.crafter.myBestWeights
  /\ crafter.myWeights # crafter.myBestWeights
  /\ crafter.myWeights # lastCycle.crafter.myWeights

(***************************************************************************)
(* Properties of the weights that are not in the alterings.                *)
(***************************************************************************)
\* The indexes of the weights of c that are not in its alterings.
IndexesOutOfAlterings(c) ==
  {i \in 0..(c.myWeightsCount - 1) :
     \A k \in 1..Len(c.myAlterWeightsIndexes) : c.myAlterWeightsIndexes[k] # i}

\* C40: after weightsImproved() or weightsDidNotImprove() has returned, every weight
\* whose index is not in the alterings is the best weight of that index, also when the
\* while loop has drawn the alterings again.
C40_WeightsOutOfAlteringsAreBest ==
  (clientPc = "returned" /\ lastCycle.called \in {"weightsImproved", "weightsDidNotImprove"})
    => \A i \in IndexesOutOfAlterings(crafter) :
         crafter.myWeights[i] = crafter.myBestWeights[i]

\* weightsImproved() has returned after its while loop has drawn the alterings again,
\* as the alterings of its entry could alter no weight; a weight is out of the new
\* alterings, and another one is no longer the best one.
C40_Witness ==
  /\ CrafterReturnedFrom("weightsImproved")
  /\ NoWeightWasAltered(lastCycle.crafter)
  /\ IndexesOutOfAlterings(crafter) # {}
  /\ crafter.myWeights # crafter.myBestWeights

(***************************************************************************)
(* Properties of the accesses of applyWeights().                           *)
(***************************************************************************)
\* How many times applyWeights() has read the weight of index weightsIndex.
ReadsCount(d, weightsIndex) ==
  Cardinality({k \in 1..Len(d.weightsRead) : d.weightsRead[k] = weightsIndex})

\* applyWeights() has read each weight below myRequiredWeightsCount once and no other
\* one, has written within myValues only, and no access was out of a vector.
AccessesAreWithinBounds(d) ==
  /\ ~d.undefined
  /\ LimbsOf(Len(d.weightsRead)) = d.myRequiredWeightsCount
  /\ \A k \in 1..Len(d.weightsRead) :
       /\ IsLess(d.weightsRead[k], d.myRequiredWeightsCount)
       /\ ReadsCount(d, d.weightsRead[k]) = 1
  /\ \A k \in 1..Len(d.valuesWritten) : IsLess(d.valuesWritten[k], d.valuesCount)

\* myRequiredWeightsCount is 2 * R * C, plus one for each value but the sink; 70 for
\* 5 rows and 5 columns.
RequiredWeightsCountIsAsStated(d) ==
  /\ d.myRequiredWeightsCount
       = SumOfInt(ProductOf(d.myColumnsCount, 2 * d.rowsCount), IntOf(d.valuesCount) - 1)
  /\ (d.rowsCount = 5 /\ d.myColumnsCount = LimbsOf(5))
       => d.myRequiredWeightsCount = LimbsOf(70)

\* C38 as stated: myRequiredWeightsCount is the number of weights one applyWeights()
\* reads, 2 * R * C plus one for each value but the sink; applyWeights() reads each
\* weight from 0 to myRequiredWeightsCount - 1 once, reads no weight from
\* myRequiredWeightsCount on, writes nothing out of myValues, and the count is 70 for 5
\* rows and 5 columns.  It does not hold for a matrix digraph whose rowsCount *
\* columnsCount wraps in Index.
C38_ApplyWeightsReadsRequiredWeightsOnce ==
  clientPc = "applied"
    => /\ AccessesAreWithinBounds(matrixDigraph)
       /\ RequiredWeightsCountIsAsStated(matrixDigraph)

\* The same of the matrix digraphs whose rowsCount * columnsCount does not wrap, which
\* holds.
C38_UnwrappedApplyWeightsReadsRequiredWeightsOnce ==
  (clientPc = "applied"
     /\ matrixDigraph.myInputsCount
          = ProductOf(matrixDigraph.myColumnsCount, matrixDigraph.rowsCount))
    => /\ AccessesAreWithinBounds(matrixDigraph)
       /\ RequiredWeightsCountIsAsStated(matrixDigraph)

\* applyWeights() of the matrix digraph of 4 rows and 2^30 columns, which requires 14
\* weights, has read the weight of index 14.
C38_WeightOutOfCrafterIsRead ==
  /\ clientPc = "applied"
  /\ matrixDigraph.rowsCount = 4
  /\ matrixDigraph.myRequiredWeightsCount = LimbsOf(14)
  /\ \E k \in 1..Len(matrixDigraph.weightsRead) : matrixDigraph.weightsRead[k] = LimbsOf(14)

\* applyWeights() of the matrix digraph of 5 rows and 5 columns has read 70 weights.
C38_SeventyWeightsAreRead ==
  /\ clientPc = "applied"
  /\ matrixDigraph.rowsCount = 5
  /\ matrixDigraph.myColumnsCount = LimbsOf(5)
  /\ Len(matrixDigraph.weightsRead) = 70
  /\ ~matrixDigraph.undefined

====
